---- MODULE Spec2Model ----
(***************************************************************************)
(* A model of ebp/engine.go: the transaction engine's Prepare pipeline     *)
(* (parallel account preload, reordering, gas-fee deduction, insertion     *)
(* into the standby queue) and its Execute pipeline (rounds of parallel    *)
(* speculative execution, the conflict resolver with its writer goroutine, *)
(* the standby-queue update and the committed-tx collector).               *)
(***************************************************************************)
EXTENDS Integers, Sequences, FiniteSets, TLC

(***************************************************************************)
(* Bounds of the model.                                                    *)
(***************************************************************************)
MaxTx == 3       \* transactions handed to CollectTx over one behaviour
MaxCalls == 3    \* calls of Prepare and Execute over one behaviour
MaxPar == 2      \* parallelNum ranges over 1..MaxPar
MaxRunner == 3   \* runnerNumber ranges over 1..MaxRunner
MaxRound == 2    \* roundNum ranges over 1..MaxRound
MaxSeed == 1     \* reorderSeed ranges over 0..MaxSeed
MaxLen == 4      \* longest infoList given to reorderInfoList on its own
MaxBundle == 12  \* longest standby queue, and runnerNumber, of the handoff specification

\* The capacity of the resolver's channel to the writer goroutine.
ChanCap == 10

(***************************************************************************)
(* Addresses, keys and the transactions offered to the engine.             *)
(***************************************************************************)
ZeroAddr == "zero"              \* common.Address{}: what Sender returns with an error
SystemAddr == "system"          \* systemContractAddress
Sep206Address == "sep206"
OtherAddr == "other"            \* a recipient that is no sender of the model
Senders == {"A", "B", "C", "D"} \* "D" has no account in the world state
AllAddrs == Senders \cup {ZeroAddr, SystemAddr}
StorageKeys == {"K1", "K2"}

\* Status domain of a TxRunner (types package).
SUCCESS == "SUCCESS"
REVERTED == "REVERTED"
ACCOUNT_NOT_EXIST == "ACCOUNT_NOT_EXIST"
TX_NONCE_TOO_SMALL == "TX_NONCE_TOO_SMALL"
TX_NONCE_TOO_LARGE == "TX_NONCE_TOO_LARGE"
FAILED_TO_COMMIT == "FAILED_TO_COMMIT"
NoStatus == "NONE"              \* the zero value of a fresh TxRunner's Status

ReceiptStatusFailed == "FAIL"
ReceiptStatusSuccessful == "OK"

\* A signed transaction as CollectTx receives it.  signer is the address the
\* signature recovers to, or "bad" when recovery fails.  rset, wset, evm and
\* used stand for what the call data makes the EVM do: the storage keys it
\* reads, the ones it writes, its terminal status and the gas it uses.
GethTx(h, s, n, g, p, v, t, r, w, e, u) ==
    [hash |-> h, signer |-> s, nonce |-> n, gas |-> g, gasPrice |-> p,
     value |-> v, to |-> t, rset |-> r, wset |-> w, evm |-> e, used |-> u]

TxPool ==
    { GethTx("a0",  "A",   0, 2, 1, 1, OtherAddr,     {},     {"K1"},       SUCCESS,  1),
      GethTx("a1",  "A",   1, 1, 1, 0, Sep206Address, {"K2"}, {},           SUCCESS,  1),
      GethTx("a2",  "A",   2, 1, 1, 0, OtherAddr,     {},     {},           REVERTED, 1),
      GethTx("b0",  "B",   0, 1, 1, 0, OtherAddr,     {},     {"K1", "K2"}, SUCCESS,  1),
      GethTx("b0p", "B",   0, 2, 1, 0, OtherAddr,     {},     {},           SUCCESS,  1),
      GethTx("c0",  "C",   0, 1, 1, 1, OtherAddr,     {},     {"K2"},       SUCCESS,  1),
      GethTx("d0",  "D",   0, 1, 1, 0, OtherAddr,     {},     {},           SUCCESS,  1),
      GethTx("z0",  "bad", 0, 1, 1, 0, OtherAddr,     {},     {},           SUCCESS,  1),
      GethTx("lp",  "A",   0, 1, 0, 0, OtherAddr,     {},     {},           SUCCESS,  1),
      GethTx("bg",  "C",   0, 3, 1, 0, OtherAddr,     {},     {},           SUCCESS,  1) }

\* The arguments Prepare is called with (besides the seed).
PrepareArgs == [minGasPrice |-> 1, maxTxGasLimit |-> 2]

\* An account of the world state; NilAcc is GetAccount's nil.
Acc(n, b) == [ex |-> TRUE, nonce |-> n, bal |-> b]
NilAcc == [ex |-> FALSE, nonce |-> 0, bal |-> 0]

GenesisAccounts ==
    [a \in AllAddrs |->
        CASE a = "A" -> Acc(0, 4)
          [] a = "B" -> Acc(0, 1)
          [] a = "C" -> Acc(0, 2)
          [] OTHER   -> NilAcc]

(***************************************************************************)
(* Small helpers.                                                          *)
(***************************************************************************)
Range(s) == {s[i] : i \in 1..Len(s)}
\* A Go map read: the zero value when the key is missing.
MapGet(m, k, zero) == IF k \in DOMAIN m THEN m[k] ELSE zero
MapSet(m, k, v) == [x \in (DOMAIN m) \cup {k} |-> IF x = k THEN v ELSE m[x]]
EmptyMap == [x \in {} |-> 0]

RECURSIVE SumSeq(_)
SumSeq(s) == IF s = <<>> THEN 0 ELSE Head(s) + SumSeq(Tail(s))

VARIABLES
    \* ---- the engine (txEngine) ----
    roundNum, runnerNumber, parallelNum,
    txList, committedTxs, cumulativeGasUsed,
    \* ---- the trunk store ----
    accounts,        \* address -> account (NilAcc when absent)
    storage,         \* storage key -> hash of the transaction that last wrote it ("" at genesis)
    standbyQ,        \* the slots: index -> serialized transaction, for the keys present
    startEndBz,      \* the control value under StandbyTxQueueKey: <<>> when missing, else <<start, end>>
    \* ---- control ----
    pc,              \* where the engine's caller stands
    calls,           \* Prepare and Execute calls made so far
    collected,       \* transactions handed to CollectTx so far
    \* ---- Prepare's locals ----
    pSeed, sharedIdx, infoList, ctxAA, addr2idx, reorderedList, addr2Infos,
    queueEnd, pStartEnd, deducted, frontier,
    \* ---- Execute's locals ----
    txRange,         \* <<start, end>>
    round,           \* the round loop's counter
    txBundle, Runners, committableRunnerList,
    touchedSet, idxChan, resIdx, writerDone,
    \* ---- observations ----
    offered,         \* the transactions the host may hand to CollectTx
    lastCall,        \* "Prepare" or "Execute": the call that returned last ("" before any)
    pre,             \* the trunk, the list and the seed as the last Prepare found them
    post,            \* the infos and their order as the last Prepare left them
    exe,             \* what the current Execute found: the queue, and the records the
                     \* Prepare before it had appended to committedTxs
    closeLog,        \* the contexts the writer goroutine closed in the current Execute
    roundLog,        \* the rounds the current Execute finished
    rt               \* reorderInfoList called on its own: the list, the seed and the results

prepVars == <<pSeed, sharedIdx, infoList, ctxAA, addr2idx, reorderedList, addr2Infos,
              queueEnd, pStartEnd, deducted>>
trunkVars == <<accounts, storage, standbyQ, startEndBz>>
confVars == <<roundNum, runnerNumber, parallelNum, offered, rt>>
execVars == <<txRange, round, txBundle, Runners, committableRunnerList, touchedSet, idxChan,
              resIdx, writerDone>>
obsVars == <<exe, closeLog, roundLog>>
vars == <<roundNum, runnerNumber, parallelNum, txList, committedTxs, cumulativeGasUsed,
          accounts, storage, standbyQ, startEndBz, pc, calls, collected,
          pSeed, sharedIdx, infoList, ctxAA, addr2idx, reorderedList, addr2Infos,
          queueEnd, pStartEnd, deducted, frontier,
          txRange, round, txBundle, Runners, committableRunnerList, touchedSet, idxChan,
          resIdx, writerDone, offered, lastCall, pre, post, exe, closeLog, roundLog, rt>>

Workers == 0..(parallelNum - 1)

(***************************************************************************)
(* Collaborators: the signer, the serialization of a TxToRun and the store *)
(* context of a Prepare worker.                                            *)
(***************************************************************************)
\* signer.Sender: the address and whether recovery failed.
Sender(tx) ==
    IF tx.signer = "bad" THEN [addr |-> ZeroAddr, err |-> TRUE]
    ELSE [addr |-> tx.signer, err |-> FALSE]

\* TxToRun.FromGethTx: the parsed form the engine keeps.
FromGethTx(tx, sender) ==
    [hashId |-> tx.hash, from |-> sender, to |-> tx.to, nonce |-> tx.nonce,
     value |-> tx.value, gasPrice |-> tx.gasPrice, gas |-> tx.gas,
     rset |-> tx.rset, wset |-> tx.wset, evm |-> tx.evm, used |-> tx.used]

\* TxToRun.ToBytes and FromBytes: the fields written out in a fixed order and
\* read back.  Nil bytes decode to the zero TxToRun.
ToBytes(t) ==
    <<t.hashId, t.from, t.to, t.nonce, t.value, t.gasPrice, t.gas, t.rset, t.wset, t.evm, t.used>>
ZeroTx ==
    [hashId |-> "", from |-> ZeroAddr, to |-> ZeroAddr, nonce |-> 0, value |-> 0,
     gasPrice |-> 0, gas |-> 0, rset |-> {}, wset |-> {}, evm |-> SUCCESS, used |-> 0]
FromBytes(bz) ==
    IF Len(bz) < 11 THEN ZeroTx
    ELSE [hashId |-> bz[1], from |-> bz[2], to |-> bz[3], nonce |-> bz[4], value |-> bz[5],
          gasPrice |-> bz[6], gas |-> bz[7], rset |-> bz[8], wset |-> bz[9], evm |-> bz[10],
          used |-> bz[11]]

\* A copy-on-write context over the trunk: what it has cached of the accounts
\* and which of those it has written.
NewCtx == [cache |-> EmptyMap, dirty |-> {}]
\* Context.GetAccount: the cached account, else the trunk's, which is then cached.
CtxAccount(tr, ctx, addr) == IF addr \in DOMAIN ctx.cache THEN ctx.cache[addr] ELSE tr[addr]
CtxRead(tr, ctx, addr) ==
    IF addr \in DOMAIN ctx.cache THEN ctx
    ELSE [ctx EXCEPT !.cache = MapSet(ctx.cache, addr, tr[addr])]
\* Context.SetAccount.
CtxSetAccount(ctx, addr, acc) ==
    [cache |-> MapSet(ctx.cache, addr, acc), dirty |-> ctx.dirty \cup {addr}]
\* Context.Close(writeBack) on a trunk tr: the written accounts reach the trunk.
CloseCtx(tr, ctx, writeBack) ==
    IF writeBack
    THEN [a \in AllAddrs |-> IF a \in ctx.dirty THEN ctx.cache[a] ELSE tr[a]]
    ELSE tr

\* A faulty updateBalance that debits without comparing the balance with the
\* amount.  C17_InsufficientFeeRejected tells it apart.
updateBalance_NoCheck(tr, ctx, address, amount, isAdd) ==
    LET got == CtxAccount(tr, ctx, address)
        acc == IF got.ex THEN got ELSE Acc(0, 0)
        c1  == CtxRead(tr, ctx, address)
        bal == IF isAdd THEN acc.bal + amount ELSE acc.bal - amount
    IN  [ctx |-> CtxSetAccount(c1, address, [acc EXCEPT !.bal = bal]), err |-> FALSE]

\* updateBalance on a context over the trunk tr: [ctx, err].
updateBalance(tr, ctx, address, amount, isAdd) ==
    LET got == CtxAccount(tr, ctx, address)
        acc == IF got.ex THEN got ELSE Acc(0, 0)      \* lazy init
        c1  == CtxRead(tr, ctx, address)
    IN  IF isAdd
        THEN [ctx |-> CtxSetAccount(c1, address, [acc EXCEPT !.bal = acc.bal + amount]),
              err |-> FALSE]
        ELSE IF acc.bal < amount
             THEN [ctx |-> c1, err |-> TRUE]          \* "balance not enough"
             ELSE [ctx |-> CtxSetAccount(c1, address, [acc EXCEPT !.bal = acc.bal - amount]),
                   err |-> FALSE]

SubSenderAccBalance(tr, ctx, sender, amount) == updateBalance(tr, ctx, sender, amount, FALSE)
AddSystemAccBalance(tr, ctx, amount) == updateBalance(tr, ctx, SystemAddr, amount, TRUE)

GetBalanceAfterBchTransfer(tr, ctx, address, value) ==
    LET acc == CtxAccount(tr, ctx, address)
    IN  IF ~acc.ex THEN 0
        ELSE IF acc.bal < value THEN 0 ELSE acc.bal - value

(***************************************************************************)
(* reorderInfoList.  An info is named by its index in infoList (the code   *)
(* passes pointers); the output is the sequence of those indices.          *)
(***************************************************************************)
\* The k-th value (k = 0, 1, ...) rand.Int63() returns after rand.Seed(seed).  The
\* generator is a library; what the engine relies on is that the stream is a
\* function of the seed.  A linear congruential stream stands in for it.
RECURSIVE Int63(_, _)
Int63(seed, k) ==
    IF k = 0 THEN (seed * 7 + 2) % 31
    ELSE (Int63(seed, k - 1) * 11 + 5) % 31

\* The addresses in order of first appearance.
RECURSIVE AddrListOf(_, _, _)
AddrListOf(infos, i, acc) ==
    IF i > Len(infos) THEN acc
    ELSE AddrListOf(infos, i + 1,
                    IF infos[i].tx.from \in Range(acc) THEN acc
                    ELSE Append(acc, infos[i].tx.from))

\* addr2Infos: for every sender its infos, in the order of the list.
Addr2InfosOf(infos) ==
    [a \in {infos[i].tx.from : i \in 1..Len(infos)} |->
        SelectSeq([i \in 1..Len(infos) |-> i], LAMBDA i : infos[i].tx.from = a)]

\* A faulty exchange that overwrites one position and leaves the other: the
\* list it leaves names an address twice.  C7_ReorderPermutation tells it apart.
Swap_Overwrite(s, i, j) == [s EXCEPT ![i] = s[j]]

Swap(s, i, j) == [s EXCEPT ![i] = s[j], ![j] = s[i]]

\* The shuffle loop: len(addrList) swaps of two independently drawn positions.
RECURSIVE Shuffle(_, _, _)
Shuffle(addrList, seed, i) ==
    IF i >= Len(addrList) THEN addrList
    ELSE LET r0 == Int63(seed, 2 * i) % Len(addrList)
             r1 == Int63(seed, 2 * i + 1) % Len(addrList)
         IN  Shuffle(Swap(addrList, r0 + 1, r1 + 1), seed, i + 1)

RECURSIVE Concat(_, _)
Concat(addrList, a2i) ==
    IF addrList = <<>> THEN <<>>
    ELSE a2i[Head(addrList)] \o Concat(Tail(addrList), a2i)

reorderInfoList(infos, reorderSeed) ==
    LET a2i == Addr2InfosOf(infos)
        addrList == Shuffle(AddrListOf(infos, 1, <<>>), reorderSeed, 0)
    IN  [out |-> Concat(addrList, a2i), addr2Infos |-> a2i]

(***************************************************************************)
(* Prepare.                                                                *)
(***************************************************************************)
NoPre == [accounts |-> GenesisAccounts, standbyQ |-> EmptyMap, startEndBz |-> <<>>,
          txList |-> <<>>, committed |-> <<>>, seed |-> 0]
NoPost == [infos |-> <<>>, order |-> <<>>]

NilInfo == [tx |-> ZeroTx, txBytes |-> <<>>, errorStr |-> "", set |-> FALSE]

NewCtxAA ==
    [ctx |-> NewCtx, accounts |-> <<>>, changed |-> FALSE, totalGasFee |-> 0,
     addr2nonce |-> EmptyMap, addr2Balance |-> EmptyMap]

EmptyFrontier == [addr2nonce |-> EmptyMap, addr2Balance |-> EmptyMap, addr2Gas |-> EmptyMap]

\* The trunk and the collected list as a call of Prepare finds them.
Snapshot(seed) ==
    [accounts |-> accounts, standbyQ |-> standbyQ, startEndBz |-> startEndBz,
     txList |-> txList, committed |-> committedTxs, seed |-> seed]

\* One iteration of a preload worker's loop on the index it claimed, over the
\* trunk tr: the info it leaves in infoList and the worker's entry afterwards.
ReadOne(tr, tx, entry) ==
    LET s == Sender(tx)
        txToRun == FromGethTx(tx, s.addr)
        info == [tx |-> txToRun, txBytes |-> <<>>, errorStr |-> "", set |-> TRUE]
        acc == CtxAccount(tr, entry.ctx, s.addr)
        read == [entry EXCEPT !.ctx = CtxRead(tr, entry.ctx, s.addr)]
    IN  IF s.err THEN [info |-> [info EXCEPT !.errorStr = "invalid signature"], entry |-> entry]
        ELSE IF tx.gasPrice < PrepareArgs.minGasPrice
        THEN [info |-> [info EXCEPT !.errorStr = "invalid gas price"], entry |-> entry]
        ELSE IF tx.gas > PrepareArgs.maxTxGasLimit
        THEN [info |-> [info EXCEPT !.errorStr = "invalid gas limit"], entry |-> entry]
        ELSE IF ~acc.ex
        THEN [info |-> [info EXCEPT !.errorStr = "non-existent account"], entry |-> read]
        ELSE IF s.addr \in DOMAIN entry.addr2nonce
        THEN [info |-> info, entry |-> read]
        ELSE [info |-> info,
              entry |-> [read EXCEPT !.accounts = Append(entry.accounts, s.addr),
                                     !.addr2nonce = MapSet(entry.addr2nonce, s.addr, acc.nonce),
                                     !.addr2Balance = MapSet(entry.addr2Balance, s.addr, acc.bal)]]

\* A faulty address map in which a later worker holding an address replaces
\* the earlier one.  C22_OneWorkerPerSender tells it apart.
Addr2IdxOf_Last(cs) ==
    LET holders(a) == {w \in DOMAIN cs : a \in Range(cs[w].accounts)}
        held == {a \in AllAddrs : holders(a) # {}}
    IN  [a \in held |-> CHOOSE w \in holders(a) : \A v \in holders(a) : w >= v]

\* addr2idx: every preloaded address goes to the lowest worker that holds it.
Addr2IdxOf(cs) ==
    LET holders(a) == {w \in DOMAIN cs : a \in Range(cs[w].accounts)}
        held == {a \in AllAddrs : holders(a) # {}}
    IN  [a \in held |-> CHOOSE w \in holders(a) : \A v \in holders(a) : w <= v]

\* deductGasFeeAndUpdateFrontier: the entry afterwards, whether it failed, and
\* the error tag it leaves on the info.
deductGasFeeAndUpdateFrontier(tr, sender, info, entry) ==
    LET gasFee == info.tx.gas * info.tx.gasPrice
        sub == SubSenderAccBalance(tr, entry.ctx, sender, gasFee)
        e1 == [entry EXCEPT !.ctx = sub.ctx]
        newBal ==
            IF info.tx.to = Sep206Address THEN 0
            ELSE IF sender \notin DOMAIN entry.addr2Balance
            THEN GetBalanceAfterBchTransfer(tr, sub.ctx, sender, info.tx.value)
            ELSE LET balance == entry.addr2Balance[sender]
                 IN  IF balance < gasFee THEN 0
                     ELSE IF balance - gasFee < info.tx.value THEN 0
                     ELSE balance - gasFee - info.tx.value
    IN  IF sub.err
        THEN [entry |-> [e1 EXCEPT !.addr2Balance = MapSet(entry.addr2Balance, sender, 0)],
              err |-> TRUE, errorStr |-> "not enough balance to pay gasfee"]
        ELSE [entry |-> [e1 EXCEPT !.addr2Balance = MapSet(entry.addr2Balance, sender, newBal),
                                   !.totalGasFee = entry.totalGasFee + gasFee],
              err |-> FALSE, errorStr |-> ""]

\* A faulty loop body that serializes the transaction before it deducts the
\* fee, so that a transaction rejected for its fee keeps its bytes.
\* C23_BytesOrTag tells it apart.
DeductInfo_BytesFirst(tr, st, i) ==
    LET info == st.infos[i]
        sender == info.tx.from
        entry == st.entry
    IN  IF info.errorStr # "" THEN st
        ELSE IF MapGet(entry.addr2nonce, sender, 0) # info.tx.nonce
        THEN [st EXCEPT !.infos[i].errorStr = "incorrect nonce"]
        ELSE LET e1 == [entry EXCEPT !.addr2nonce =
                            MapSet(entry.addr2nonce, sender, MapGet(entry.addr2nonce, sender, 0) + 1)]
                 d == deductGasFeeAndUpdateFrontier(tr, sender, info, e1)
             IN  IF d.err
                 THEN [entry |-> d.entry,
                       infos |-> [st.infos EXCEPT ![i].errorStr = d.errorStr,
                                                  ![i].txBytes = ToBytes(info.tx)]]
                 ELSE [entry |-> [d.entry EXCEPT !.changed = TRUE],
                       infos |-> [st.infos EXCEPT ![i].txBytes = ToBytes(info.tx)]]

\* The body of the deduction loop for one info: st holds the worker's entry and
\* the infoList.
DeductInfo(tr, st, i) ==
    LET info == st.infos[i]
        sender == info.tx.from
        entry == st.entry
    IN  IF info.errorStr # "" THEN st
        ELSE IF MapGet(entry.addr2nonce, sender, 0) # info.tx.nonce
        THEN [st EXCEPT !.infos[i].errorStr = "incorrect nonce"]
        ELSE LET e1 == [entry EXCEPT !.addr2nonce =
                            MapSet(entry.addr2nonce, sender, MapGet(entry.addr2nonce, sender, 0) + 1)]
                 d == deductGasFeeAndUpdateFrontier(tr, sender, info, e1)
             IN  IF d.err
                 THEN [entry |-> d.entry, infos |-> [st.infos EXCEPT ![i].errorStr = d.errorStr]]
                 ELSE [entry |-> [d.entry EXCEPT !.changed = TRUE],
                       infos |-> [st.infos EXCEPT ![i].txBytes = ToBytes(info.tx)]]

RECURSIVE DeductInfos(_, _, _)
DeductInfos(tr, st, idxs) ==
    IF idxs = <<>> THEN st ELSE DeductInfos(tr, DeductInfo(tr, st, Head(idxs)), Tail(idxs))

\* A faulty deduction loop that skips the ownership test, so that every worker
\* holding an address handles it.  C1_PrepareDeterministic tells it apart.
RECURSIVE DeductAccounts_NoOwner(_, _, _, _, _, _)
DeductAccounts_NoOwner(tr, st, accts, idx, a2idx, a2infos) ==
    IF accts = <<>> THEN st
    ELSE DeductAccounts_NoOwner(tr, DeductInfos(tr, st, a2infos[Head(accts)]), Tail(accts),
                                idx, a2idx, a2infos)

\* The loop of deduction worker idx over its accounts.
RECURSIVE DeductAccounts(_, _, _, _, _, _)
DeductAccounts(tr, st, accts, idx, a2idx, a2infos) ==
    IF accts = <<>> THEN st
    ELSE LET addr == Head(accts)
             st1 == IF a2idx[addr] # idx THEN st   \* this addr does not belong to this entry
                    ELSE DeductInfos(tr, st, a2infos[addr])
         IN  DeductAccounts(tr, st1, Tail(accts), idx, a2idx, a2infos)

\* The contexts of the workers closed one after the other.
RECURSIVE CloseAll(_, _, _)
CloseAll(tr, cs, i) ==
    IF i \notin DOMAIN cs THEN tr
    ELSE CloseAll(CloseCtx(tr, cs[i].ctx, cs[i].changed), cs, i + 1)

\* A faulty sum that stops after one worker.  C6_FeeConservation tells it apart.
TotalGasFee_First(cs, i) == IF i \notin DOMAIN cs THEN 0 ELSE cs[i].totalGasFee

RECURSIVE TotalGasFee(_, _)
TotalGasFee(cs, i) == IF i \notin DOMAIN cs THEN 0 ELSE cs[i].totalGasFee + TotalGasFee(cs, i + 1)

\* recordInvalidTx: the record appended to committedTxs.
recordInvalidTx(info, committed, cumGas) ==
    [hash |-> info.tx.hashId, transactionIndex |-> Len(committed), nonce |-> info.tx.nonce,
     from |-> info.tx.from, gas |-> info.tx.gas, cumulativeGasUsed |-> cumGas,
     gasUsed |-> 0, status |-> ReceiptStatusFailed, statusStr |-> info.errorStr]

\* A faulty insertion loop that records a rejected info and then goes on to
\* write it to a slot.  C10_RejectedNeverQueued tells it apart.
RECURSIVE InsertLoop_NoSkip(_, _, _, _)
InsertLoop_NoSkip(st, infos, order, cumGas) ==
    IF order = <<>> THEN st
    ELSE LET info == infos[Head(order)]
             st1 == IF info.errorStr # ""
                    THEN [st EXCEPT !.committed =
                              Append(st.committed, recordInvalidTx(info, st.committed, cumGas))]
                    ELSE st
             st2 == [st1 EXCEPT !.slots = MapSet(st1.slots, st1.end, ToBytes(info.tx)),
                                !.end = st1.end + 1]
         IN  InsertLoop_NoSkip(st2, infos, Tail(order), cumGas)

\* A faulty insertion loop that follows the indices of infoList instead of the
\* reordered list.  C14_InsertFollowsReorder tells it apart.
RECURSIVE InsertLoop_ListOrder(_, _, _, _)
InsertLoop_ListOrder(st, infos, order, cumGas) ==
    IF order = <<>> THEN st
    ELSE LET m == CHOOSE i \in Range(order) : \A j \in Range(order) : i <= j
             info == infos[m]
             st1 == IF info.errorStr # ""
                    THEN [st EXCEPT !.committed =
                              Append(st.committed, recordInvalidTx(info, st.committed, cumGas))]
                    ELSE [st EXCEPT !.slots = MapSet(st.slots, st.end, info.txBytes),
                                    !.end = st.end + 1]
         IN  InsertLoop_ListOrder(st1, infos, SelectSeq(order, LAMBDA x : x # m), cumGas)

\* insertToStandbyTxQ's loop: st holds the slots, end and committedTxs.
RECURSIVE InsertLoop(_, _, _, _)
InsertLoop(st, infos, order, cumGas) ==
    IF order = <<>> THEN st
    ELSE LET info == infos[Head(order)]
             st1 == IF info.errorStr # ""
                    THEN [st EXCEPT !.committed =
                              Append(st.committed, recordInvalidTx(info, st.committed, cumGas))]
                    ELSE [st EXCEPT !.slots = MapSet(st.slots, st.end, info.txBytes),
                                    !.end = st.end + 1]
         IN  InsertLoop(st1, infos, Tail(order), cumGas)

\* NewFrontierWithCtxAA.
NewFrontierWithCtxAA(cs, a2idx) ==
    LET have == {a \in DOMAIN a2idx : a \in DOMAIN cs[a2idx[a]].addr2nonce}
    IN  [addr2nonce |-> [a \in have |-> cs[a2idx[a]].addr2nonce[a]],
         addr2Balance |-> [a \in have |-> MapGet(cs[a2idx[a]].addr2Balance, a, 0)],
         addr2Gas |-> EmptyMap]

ResetPrepareLocals ==
    /\ pSeed' = 0
    /\ sharedIdx' = -1
    /\ infoList' = <<>>
    /\ ctxAA' = <<>>
    /\ addr2idx' = EmptyMap
    /\ reorderedList' = <<>>
    /\ addr2Infos' = EmptyMap
    /\ queueEnd' = 0
    /\ pStartEnd' = <<>>
    /\ deducted' = {}

\* CollectTx.
CollectTx(tx) ==
    /\ pc = "idle"
    /\ collected < MaxTx
    /\ \A i \in 1..Len(txList) : txList[i].hash # tx.hash
    /\ txList' = Append(txList, tx)
    /\ collected' = collected + 1
    /\ UNCHANGED <<confVars, committedTxs, cumulativeGasUsed, trunkVars, pc, calls,
                   prepVars, frontier, pre, post, lastCall, execVars, obsVars>>

\* Prepare called with no transaction collected: it returns an empty frontier.
PrepareEmpty ==
    /\ pc = "idle"
    /\ calls < MaxCalls
    /\ txList = <<>>
    /\ calls' = calls + 1
    /\ frontier' = EmptyFrontier
    /\ pre' = Snapshot(0)
    /\ post' = NoPost
    /\ lastCall' = "Prepare"
    /\ UNCHANGED <<confVars, txList, committedTxs, cumulativeGasUsed, trunkVars, pc,
                   collected, prepVars, execVars, obsVars>>

\* Prepare called with transactions: the preload workers start.
PrepareStart(seed) ==
    /\ pc = "idle"
    /\ calls < MaxCalls
    /\ txList # <<>>
    /\ calls' = calls + 1
    /\ pc' = "preload"
    /\ pSeed' = seed
    /\ pre' = Snapshot(seed)
    /\ post' = NoPost
    /\ sharedIdx' = -1
    /\ infoList' = [i \in 1..Len(txList) |-> NilInfo]
    /\ ctxAA' = [w \in Workers |-> NewCtxAA]
    /\ UNCHANGED <<confVars, txList, committedTxs, cumulativeGasUsed, trunkVars, collected,
                   addr2idx, reorderedList, addr2Infos, queueEnd, pStartEnd, deducted, frontier,
                   lastCall, execVars, obsVars>>

\* parallelReadAccounts: worker w claims the next index and handles it.
ReadAccount(w) ==
    /\ pc = "preload"
    /\ sharedIdx + 1 < Len(txList)
    /\ LET myIdx == sharedIdx + 1
           r == ReadOne(accounts, txList[myIdx + 1], ctxAA[w])
       IN  /\ sharedIdx' = myIdx
           /\ infoList' = [infoList EXCEPT ![myIdx + 1] = r.info]
           /\ ctxAA' = [ctxAA EXCEPT ![w] = r.entry]
    /\ UNCHANGED <<confVars, txList, committedTxs, cumulativeGasUsed, trunkVars, pc, calls,
                   collected, pSeed, addr2idx, reorderedList, addr2Infos, queueEnd, pStartEnd,
                   deducted, frontier, pre, post, lastCall, execVars, obsVars>>

\* Prepare between its two parallel sections: the address map, the reordering
\* and the read of the queue's end.
PrepareReorder ==
    /\ pc = "preload"
    /\ sharedIdx + 1 >= Len(txList)
    /\ LET r == reorderInfoList(infoList, pSeed)
       IN  /\ reorderedList' = r.out
           /\ addr2Infos' = r.addr2Infos
    /\ addr2idx' = Addr2IdxOf(ctxAA)
    /\ queueEnd' = IF Len(startEndBz) >= 2 THEN startEndBz[2] ELSE 0
    /\ pStartEnd' = IF Len(startEndBz) >= 2 THEN startEndBz ELSE <<0, 0>>
    /\ deducted' = {}
    /\ pc' = "deduct"
    /\ UNCHANGED <<confVars, txList, committedTxs, cumulativeGasUsed, trunkVars, calls,
                   collected, pSeed, sharedIdx, infoList, ctxAA, frontier, pre, post, lastCall,
                   execVars, obsVars>>

\* The deduction section: worker idx checks the nonces and deducts the fees of
\* the senders that belong to it.
Deduct(idx) ==
    /\ pc = "deduct"
    /\ idx \in Workers \ deducted
    /\ LET st == DeductAccounts(accounts, [entry |-> ctxAA[idx], infos |-> infoList],
                                ctxAA[idx].accounts, idx, addr2idx, addr2Infos)
       IN  /\ ctxAA' = [ctxAA EXCEPT ![idx] = st.entry]
           /\ infoList' = st.infos
    /\ deducted' = deducted \cup {idx}
    /\ UNCHANGED <<confVars, txList, committedTxs, cumulativeGasUsed, trunkVars, pc, calls,
                   collected, pSeed, sharedIdx, addr2idx, reorderedList, addr2Infos, queueEnd,
                   pStartEnd, frontier, pre, post, lastCall, execVars, obsVars>>

\* After the join: the workers' contexts are closed and the fees credited to
\* the system account.
PrepareWriteBack ==
    /\ pc = "deduct"
    /\ deducted = Workers
    /\ LET tr == CloseAll(accounts, ctxAA, 0)
           add == AddSystemAccBalance(tr, NewCtx, TotalGasFee(ctxAA, 0))
       IN  accounts' = CloseCtx(tr, add.ctx, TRUE)
    /\ pc' = "insert"
    /\ UNCHANGED <<confVars, txList, committedTxs, cumulativeGasUsed, storage, standbyQ,
                   startEndBz, calls, collected, prepVars, frontier, pre, post, lastCall,
                   execVars, obsVars>>

\* insertToStandbyTxQ in one trunk update, and Prepare's return.
PrepareInsert ==
    /\ pc = "insert"
    /\ LET st == InsertLoop([slots |-> standbyQ, end |-> queueEnd, committed |-> committedTxs],
                            infoList, reorderedList, cumulativeGasUsed)
       IN  /\ standbyQ' = st.slots
           /\ startEndBz' = <<pStartEnd[1], st.end>>
           /\ committedTxs' = st.committed
    /\ txList' = <<>>
    /\ frontier' = NewFrontierWithCtxAA(ctxAA, addr2idx)
    /\ pc' = "idle"
    /\ lastCall' = "Prepare"
    /\ post' = [infos |-> infoList, order |-> reorderedList]
    /\ ResetPrepareLocals
    /\ UNCHANGED <<confVars, cumulativeGasUsed, accounts, storage, calls, collected, pre,
                   execVars, obsVars>>

(***************************************************************************)
(* Execute.                                                                *)
(***************************************************************************)
\* A TxRunner with its speculative context: the keys the context has cached
\* without writing them (reads), the keys it has written (dirty) and the
\* sender's account as written.  rnd, idx and canCommit record the round, the
\* slot and the resolver's decision.
NilRunner ==
    [nil |-> TRUE, tx |-> ZeroTx, status |-> NoStatus, gasUsed |-> 0, reads |-> {},
     dirty |-> {}, acc |-> NilAcc, rnd |-> 0, idx |-> 0, canCommit |-> FALSE]

NewRunner(tx, rnd, idx) ==
    [nil |-> FALSE, tx |-> tx, status |-> NoStatus, gasUsed |-> 0, reads |-> {},
     dirty |-> {}, acc |-> NilAcc, rnd |-> rnd, idx |-> idx, canCommit |-> FALSE]

\* runTx, the EVM collaborator, on a fresh runner r over the trunk accounts tr:
\* it reads the sender's account, stops on a missing account or a nonce that
\* differs from the stored one, and otherwise writes the account with the
\* nonce advanced, reads and writes the storage the call touches and reports
\* the call's status and gas.
runTx(r, tr) ==
    LET acc == tr[r.tx.from]
    IN  IF ~acc.ex THEN [r EXCEPT !.status = ACCOUNT_NOT_EXIST, !.reads = {r.tx.from}]
        ELSE IF r.tx.nonce > acc.nonce
        THEN [r EXCEPT !.status = TX_NONCE_TOO_LARGE, !.reads = {r.tx.from}]
        ELSE IF r.tx.nonce < acc.nonce
        THEN [r EXCEPT !.status = TX_NONCE_TOO_SMALL, !.reads = {r.tx.from}]
        ELSE LET w == IF r.tx.evm = SUCCESS THEN r.tx.wset ELSE {}
             IN  [r EXCEPT !.status = r.tx.evm,
                           !.gasUsed = r.tx.used,
                           !.dirty = {r.tx.from} \cup w,
                           !.reads = r.tx.rset \ w,
                           !.acc = [acc EXCEPT !.nonce = acc.nonce + 1]]

StatusIsFailure(status) == status \notin {SUCCESS, REVERTED}
StatusToStr(status) == status

\* getStandbyQueueRange.
getStandbyQueueRange == IF startEndBz = <<>> THEN <<0, 0>> ELSE startEndBz

\* A faulty load that takes one transaction whatever runnerNumber is.
\* C18_RoundsBounded tells it apart.
loadStandbyTxs_One(range) ==
    [i \in 1..1 |-> FromBytes(MapGet(standbyQ, range[1] + i - 1, <<>>))]

\* loadStandbyTxs.
loadStandbyTxs(range) ==
    LET end == IF range[2] > range[1] + runnerNumber THEN range[1] + runnerNumber ELSE range[2]
    IN  [i \in 1..(end - range[1]) |-> FromBytes(MapGet(standbyQ, range[1] + i - 1, <<>>))]

\* A faulty worker loop without the test of the preceding slot's sender.
\* C16_SameSenderNextRound tells it apart.
RunOne_NoCheck(myIdx) == runTx(NewRunner(txBundle[myIdx + 1], round, myIdx), accounts)

\* The body of a worker's loop in runTxInParallel for the slot it claimed.
RunOne(myIdx) ==
    LET r == NewRunner(txBundle[myIdx + 1], round, myIdx)
    IN  IF myIdx > 0 /\ txBundle[myIdx].from = txBundle[myIdx + 1].from
        THEN [r EXCEPT !.status = TX_NONCE_TOO_LARGE]
        ELSE runTx(r, accounts)

\* A faulty resolver that forgets to put a committable runner's written keys
\* into touchedSet.  C8_OneWriterPerRound tells it apart.
CheckDeps_NoTouch(r, touched) ==
    IF (r.reads \cup r.dirty) \cap touched # {}
    THEN [runner |-> [r EXCEPT !.status = FAILED_TO_COMMIT, !.canCommit = FALSE],
          touched |-> touched]
    ELSE [runner |-> [r EXCEPT !.canCommit = TRUE], touched |-> touched]

\* A faulty resolver that keeps one mark for all storage keys, so that any two
\* storage accesses collide.  C9_DisjointBundleCommits tells it apart.
CheckDeps_Collide(r, touched) ==
    LET mark(ks) == (ks \ StorageKeys) \cup (IF ks \cap StorageKeys # {} THEN {"K1"} ELSE {})
    IN  IF mark(r.reads \cup r.dirty) \cap touched # {}
        THEN [runner |-> [r EXCEPT !.status = FAILED_TO_COMMIT, !.canCommit = FALSE],
              touched |-> touched]
        ELSE [runner |-> [r EXCEPT !.canCommit = TRUE], touched |-> touched \cup mark(r.dirty)]

\* A faulty resolver that puts every key of a committable runner, read or
\* written, into touchedSet.  C21_ConflictRule tells it apart.
CheckDeps_ReadsTouch(r, touched) ==
    IF (r.reads \cup r.dirty) \cap touched # {}
    THEN [runner |-> [r EXCEPT !.status = FAILED_TO_COMMIT, !.canCommit = FALSE],
          touched |-> touched]
    ELSE [runner |-> [r EXCEPT !.canCommit = TRUE],
          touched |-> touched \cup r.reads \cup r.dirty]

\* The resolver's two scans of slot idx: the runner and touchedSet afterwards.
CheckDeps(r, touched) ==
    LET hit == (r.reads \cup r.dirty) \cap touched # {}
    IN  IF hit
        THEN [runner |-> [r EXCEPT !.status = FAILED_TO_COMMIT, !.canCommit = FALSE],
              touched |-> touched]
        ELSE [runner |-> [r EXCEPT !.canCommit = TRUE], touched |-> touched \cup r.dirty]

\* A faulty close that writes the context back whatever the resolver decided.
\* C24_RetriesWriteNothing tells it apart.
WriteBackAccounts_Always(r, canCommit) ==
    [a \in AllAddrs |-> IF a \in r.dirty THEN r.acc ELSE accounts[a]]

\* Rbt.CloseAndWriteBack(canCommit) of runner r.
WriteBackAccounts(r, canCommit) ==
    IF canCommit
    THEN [a \in AllAddrs |-> IF a \in r.dirty THEN r.acc ELSE accounts[a]]
    ELSE accounts
WriteBackStorage(r, canCommit) ==
    IF canCommit
    THEN [k \in StorageKeys |-> IF k \in r.dirty THEN r.tx.hashId ELSE storage[k]]
    ELSE storage

\* A faulty test that takes only a missing account for permanently invalid.
\* C20_ResolverDispatch tells it apart.
IsInvalid_OnlyMissing(status) == status = ACCOUNT_NOT_EXIST

IsRetry(status) == status = FAILED_TO_COMMIT \/ status = TX_NONCE_TOO_LARGE
IsInvalid(status) == status = ACCOUNT_NOT_EXIST \/ status = TX_NONCE_TOO_SMALL

MapDel(m, k) == [x \in (DOMAIN m) \ {k} |-> m[x]]

\* A faulty update that re-appends a retried transaction and leaves its runner
\* in place.  C3_NoncesAscending tells it apart.
RECURSIVE UpdateLoop_KeepRetried(_, _)
UpdateLoop_KeepRetried(st, idx) ==
    IF idx >= Len(txBundle) THEN st
    ELSE LET status == st.runners[idx].status
             s1 == [st EXCEPT !.slots = MapDel(st.slots, st.start), !.start = st.start + 1]
             s2 == IF IsRetry(status)
                   THEN [s1 EXCEPT !.slots = MapSet(s1.slots, s1.end, ToBytes(txBundle[idx + 1])),
                                   !.end = s1.end + 1]
                   ELSE IF IsInvalid(status)
                   THEN [s1 EXCEPT !.cumGas = s1.cumGas + st.runners[idx].tx.gas,
                                   !.runners[idx] = NilRunner]
                   ELSE s1
         IN  UpdateLoop_KeepRetried(s2, idx + 1)

\* A faulty update that forgets a retried transaction instead of re-appending
\* it.  C4_StandbyLength tells it apart.
RECURSIVE UpdateLoop_NoReappend(_, _)
UpdateLoop_NoReappend(st, idx) ==
    IF idx >= Len(txBundle) THEN st
    ELSE LET status == st.runners[idx].status
             s1 == [st EXCEPT !.slots = MapDel(st.slots, st.start), !.start = st.start + 1]
             s2 == IF IsRetry(status)
                   THEN [s1 EXCEPT !.runners[idx] = NilRunner]
                   ELSE IF IsInvalid(status)
                   THEN [s1 EXCEPT !.cumGas = s1.cumGas + st.runners[idx].tx.gas,
                                   !.runners[idx] = NilRunner]
                   ELSE s1
         IN  UpdateLoop_NoReappend(s2, idx + 1)

\* A faulty update that drops an invalid transaction without charging its gas
\* limit.  C5_CumulativeGas tells it apart.
RECURSIVE UpdateLoop_NoGas(_, _)
UpdateLoop_NoGas(st, idx) ==
    IF idx >= Len(txBundle) THEN st
    ELSE LET status == st.runners[idx].status
             s1 == [st EXCEPT !.slots = MapDel(st.slots, st.start), !.start = st.start + 1]
             s2 == IF IsRetry(status)
                   THEN [s1 EXCEPT !.slots = MapSet(s1.slots, s1.end, ToBytes(txBundle[idx + 1])),
                                   !.end = s1.end + 1,
                                   !.runners[idx] = NilRunner]
                   ELSE IF IsInvalid(status)
                   THEN [s1 EXCEPT !.runners[idx] = NilRunner]
                   ELSE s1
         IN  UpdateLoop_NoGas(s2, idx + 1)

\* A faulty update that advances start and leaves the slot it passed in the
\* store.  C13_QueueInvariant tells it apart.
RECURSIVE UpdateLoop_NoDelete(_, _)
UpdateLoop_NoDelete(st, idx) ==
    IF idx >= Len(txBundle) THEN st
    ELSE LET status == st.runners[idx].status
             s1 == [st EXCEPT !.start = st.start + 1]
             s2 == IF IsRetry(status)
                   THEN [s1 EXCEPT !.slots = MapSet(s1.slots, s1.end, ToBytes(txBundle[idx + 1])),
                                   !.end = s1.end + 1,
                                   !.runners[idx] = NilRunner]
                   ELSE IF IsInvalid(status)
                   THEN [s1 EXCEPT !.cumGas = s1.cumGas + st.runners[idx].tx.gas,
                                   !.runners[idx] = NilRunner]
                   ELSE s1
         IN  UpdateLoop_NoDelete(s2, idx + 1)

\* The loop of the trunk update at the end of checkTxDepsAndUptStandbyQ.  st
\* holds the slots, the range, the Runners and cumulativeGasUsed.
RECURSIVE UpdateLoop(_, _)
UpdateLoop(st, idx) ==
    IF idx >= Len(txBundle) THEN st
    ELSE LET status == st.runners[idx].status
             tx == txBundle[idx + 1]
             s1 == [st EXCEPT !.slots = MapDel(st.slots, st.start), !.start = st.start + 1]
             s2 == IF IsRetry(status)
                   THEN [s1 EXCEPT !.slots = MapSet(s1.slots, s1.end, ToBytes(tx)),
                                   !.end = s1.end + 1,
                                   !.runners[idx] = NilRunner]
                   ELSE IF IsInvalid(status)
                   THEN [s1 EXCEPT !.cumGas = s1.cumGas + st.runners[idx].tx.gas,
                                   !.runners[idx] = NilRunner]
                   ELSE s1
         IN  UpdateLoop(s2, idx + 1)

\* A faulty collection loop that walks the Runners from the last slot down.
\* C2_CloseAndCommitOrder tells it apart.
RECURSIVE Committable_Rev(_, _, _)
Committable_Rev(runners, i, numTx) ==
    IF i >= numTx THEN <<>>
    ELSE Committable_Rev(runners, i + 1, numTx)
         \o (IF runners[i].nil THEN <<>> ELSE <<runners[i]>>)

\* Execute's loop over the Runners after a round.
RECURSIVE Committable(_, _, _)
Committable(runners, i, numTx) ==
    IF i >= numTx THEN <<>>
    ELSE (IF runners[i].nil THEN <<>> ELSE <<runners[i]>>) \o Committable(runners, i + 1, numTx)

\* collectCommittableTxs: st holds committedTxs and cumulativeGasUsed.
RECURSIVE collectCommittableTxs(_, _, _)
collectCommittableTxs(st, list, idx) ==
    IF idx >= Len(list) THEN st
    ELSE LET runner == list[idx + 1]
             cum == st.cumGas + runner.gasUsed
             tx == [hash |-> runner.tx.hashId, transactionIndex |-> idx,
                    nonce |-> runner.tx.nonce, from |-> runner.tx.from, gas |-> runner.tx.gas,
                    cumulativeGasUsed |-> cum, gasUsed |-> runner.gasUsed,
                    status |-> IF StatusIsFailure(runner.status) THEN ReceiptStatusFailed
                               ELSE ReceiptStatusSuccessful,
                    statusStr |-> StatusToStr(runner.status)]
         IN  collectCommittableTxs([committed |-> Append(st.committed, tx), cumGas |-> cum],
                                   list, idx + 1)

NoExe == [queue0 |-> <<>>, found |-> <<>>]

\* The transactions in the slots of a range, head first.
QueueOf(range) == [i \in 1..(range[2] - range[1]) |-> FromBytes(MapGet(standbyQ, range[1] + i - 1, <<>>))]

\* Execute up to its round loop.
ExecuteStart ==
    /\ pc = "idle"
    /\ calls < MaxCalls
    /\ calls' = calls + 1
    /\ committedTxs' = <<>>
    /\ cumulativeGasUsed' = 0
    /\ LET range == getStandbyQueueRange
       IN  /\ exe' = [queue0 |-> QueueOf(range),
                       found |-> IF lastCall = "Prepare"
                                 THEN SubSeq(committedTxs, Len(pre.committed) + 1,
                                             Len(committedTxs))
                                 ELSE <<>>]
           /\ txRange' = range
           /\ IF range[1] = range[2]
              THEN pc' = "idle" /\ lastCall' = "Execute"
              ELSE pc' = "round" /\ lastCall' = lastCall
    /\ round' = 0
    /\ committableRunnerList' = <<>>
    /\ closeLog' = <<>>
    /\ roundLog' = <<>>
    /\ pre' = NoPre
    /\ post' = NoPost
    /\ UNCHANGED <<confVars, txList, trunkVars, collected, prepVars, frontier, txBundle,
                   Runners, touchedSet, idxChan, resIdx, writerDone>>

\* A round begins: loadStandbyTxs.
LoadStandbyTxs ==
    /\ pc = "round"
    /\ round < roundNum
    /\ txRange[1] # txRange[2]
    /\ txBundle' = loadStandbyTxs(txRange)
    /\ sharedIdx' = -1
    /\ pc' = "run"
    /\ UNCHANGED <<confVars, txList, committedTxs, cumulativeGasUsed, trunkVars, calls,
                   collected, pSeed, infoList, ctxAA, addr2idx, reorderedList, addr2Infos,
                   queueEnd, pStartEnd, deducted, frontier, txRange, round, Runners,
                   committableRunnerList, touchedSet, idxChan, resIdx, writerDone, lastCall,
                   pre, post, obsVars>>

\* runTxInParallel: worker w claims the next slot and runs it.
RunSlot(w) ==
    /\ pc = "run"
    /\ sharedIdx + 1 < Len(txBundle)
    /\ LET myIdx == sharedIdx + 1
       IN  /\ sharedIdx' = myIdx
           /\ Runners' = [Runners EXCEPT ![myIdx] = RunOne(myIdx)]
    /\ UNCHANGED <<confVars, txList, committedTxs, cumulativeGasUsed, trunkVars, pc, calls,
                   collected, pSeed, infoList, ctxAA, addr2idx, reorderedList, addr2Infos,
                   queueEnd, pStartEnd, deducted, frontier, txRange, round, txBundle,
                   committableRunnerList, touchedSet, idxChan, resIdx, writerDone, lastCall,
                   pre, post, obsVars>>

\* checkTxDepsAndUptStandbyQ starts: the channel is made and the writer goroutine started.
StartResolver ==
    /\ pc = "run"
    /\ sharedIdx + 1 >= Len(txBundle)
    /\ touchedSet' = {}
    /\ idxChan' = <<>>
    /\ resIdx' = 0
    /\ writerDone' = FALSE
    /\ pc' = "resolve"
    /\ UNCHANGED <<confVars, txList, committedTxs, cumulativeGasUsed, trunkVars, calls,
                   collected, prepVars, frontier, txRange, round, txBundle, Runners,
                   committableRunnerList, lastCall, pre, post, obsVars>>

\* The resolver checks slot resIdx and sends its decision to the writer; the
\* send waits while the channel is full.
ResolveSlot ==
    /\ pc = "resolve"
    /\ resIdx < Len(txBundle)
    /\ Len(idxChan) < ChanCap
    /\ LET c == CheckDeps(Runners[resIdx], touchedSet)
       IN  /\ Runners' = [Runners EXCEPT ![resIdx] = c.runner]
           /\ touchedSet' = c.touched
           /\ idxChan' = Append(idxChan, [idx |-> resIdx, canCommit |-> c.runner.canCommit])
    /\ resIdx' = resIdx + 1
    /\ UNCHANGED <<confVars, txList, committedTxs, cumulativeGasUsed, trunkVars, pc, calls,
                   collected, prepVars, frontier, txRange, round, txBundle,
                   committableRunnerList, writerDone, lastCall, pre, post, obsVars>>

\* A faulty resolver that returns from its loop without sending the sentinel.
\* C25_HandoffTerminates tells it apart.
SendSentinel_Skip ==
    /\ pc = "resolve"
    /\ resIdx = Len(txBundle)
    /\ resIdx' = resIdx + 1
    /\ UNCHANGED <<confVars, txList, committedTxs, cumulativeGasUsed, trunkVars, pc, calls,
                   collected, prepVars, frontier, txRange, round, txBundle, Runners,
                   committableRunnerList, touchedSet, idxChan, writerDone, lastCall, pre, post,
                   obsVars>>

\* The resolver sends the sentinel after the last slot.
SendSentinel ==
    /\ pc = "resolve"
    /\ resIdx = Len(txBundle)
    /\ Len(idxChan) < ChanCap
    /\ idxChan' = Append(idxChan, [idx |-> -1, canCommit |-> FALSE])
    /\ resIdx' = resIdx + 1
    /\ UNCHANGED <<confVars, txList, committedTxs, cumulativeGasUsed, trunkVars, pc, calls,
                   collected, prepVars, frontier, txRange, round, txBundle, Runners,
                   committableRunnerList, touchedSet, writerDone, lastCall, pre, post, obsVars>>

\* The writer goroutine receives one message: it closes the slot's context, or
\* leaves on the sentinel.
WriterStep ==
    /\ pc = "resolve"
    /\ ~writerDone
    /\ idxChan # <<>>
    /\ LET m == Head(idxChan)
       IN  IF m.idx < 0
           THEN /\ writerDone' = TRUE
                /\ UNCHANGED <<accounts, storage, closeLog>>
           ELSE /\ accounts' = WriteBackAccounts(Runners[m.idx], m.canCommit)
                /\ storage' = WriteBackStorage(Runners[m.idx], m.canCommit)
                /\ closeLog' = Append(closeLog,
                                      [rnd |-> round, idx |-> m.idx, canCommit |-> m.canCommit,
                                       wrote |-> <<accounts', storage'>> # <<accounts, storage>>])
                /\ UNCHANGED writerDone
    /\ idxChan' = Tail(idxChan)
    /\ UNCHANGED <<confVars, txList, committedTxs, cumulativeGasUsed, standbyQ, startEndBz, pc,
                   calls, collected, prepVars, frontier, txRange, round, txBundle, Runners,
                   committableRunnerList, touchedSet, resIdx, lastCall, pre, post, exe, roundLog>>

\* After wg.Wait: the trunk update of the standby queue, and Execute's
\* collection of the runners the round left.
UpdateStandbyQ ==
    /\ pc = "resolve"
    /\ resIdx > Len(txBundle)
    /\ writerDone
    /\ LET st == UpdateLoop([slots |-> standbyQ, start |-> txRange[1], end |-> txRange[2],
                             runners |-> Runners, cumGas |-> cumulativeGasUsed], 0)
           numTx == Len(txBundle)
       IN  /\ standbyQ' = st.slots
           /\ txRange' = <<st.start, st.end>>
           /\ cumulativeGasUsed' = st.cumGas
           /\ committableRunnerList' =
                  committableRunnerList \o Committable(st.runners, 0, numTx)
           /\ Runners' = [i \in DOMAIN Runners |-> IF i < numTx THEN NilRunner ELSE st.runners[i]]
           /\ roundLog' = Append(roundLog,
                  [rnd |-> round, start |-> txRange[1], end |-> txRange[2],
                   bundle |-> txBundle,
                   runners |-> [i \in 1..numTx |-> Runners[i - 1]],
                   endAfter |-> st.end, slotsAfter |-> st.slots,
                   cumBefore |-> cumulativeGasUsed, cumAfter |-> st.cumGas])
    /\ round' = round + 1
    /\ pc' = "round"
    /\ UNCHANGED <<confVars, txList, committedTxs, accounts, storage, startEndBz, calls,
                   collected, prepVars, frontier, txBundle, touchedSet, idxChan, resIdx,
                   writerDone, lastCall, pre, post, exe, closeLog>>

\* The round loop ends: setStandbyQueueRange and collectCommittableTxs.
ExecuteFinish ==
    /\ pc = "round"
    /\ (round >= roundNum \/ txRange[1] = txRange[2])
    /\ startEndBz' = txRange
    /\ LET st == collectCommittableTxs([committed |-> committedTxs, cumGas |-> cumulativeGasUsed],
                                       committableRunnerList, 0)
       IN  /\ committedTxs' = st.committed
           /\ cumulativeGasUsed' = st.cumGas
    /\ pc' = "idle"
    /\ lastCall' = "Execute"
    /\ UNCHANGED <<confVars, txList, accounts, storage, standbyQ, calls, collected, prepVars,
                   frontier, execVars, pre, post, obsVars>>

\* The engine as NewEbpTxExec leaves it, over the genesis state.
Constructed ==
    /\ txList = <<>>
    /\ committedTxs = <<>>
    /\ cumulativeGasUsed = 0
    /\ accounts = GenesisAccounts
    /\ storage = [k \in StorageKeys |-> ""]
    /\ standbyQ = EmptyMap
    /\ startEndBz = <<>>
    /\ pc = "idle"
    /\ calls = 0
    /\ collected = 0
    /\ pSeed = 0
    /\ sharedIdx = -1
    /\ infoList = <<>>
    /\ ctxAA = <<>>
    /\ addr2idx = EmptyMap
    /\ reorderedList = <<>>
    /\ addr2Infos = EmptyMap
    /\ queueEnd = 0
    /\ pStartEnd = <<>>
    /\ deducted = {}
    /\ frontier = EmptyFrontier
    /\ txRange = <<0, 0>>
    /\ round = 0
    /\ txBundle = <<>>
    /\ Runners = [i \in 0..(runnerNumber - 1) |-> NilRunner]
    /\ committableRunnerList = <<>>
    /\ touchedSet = {}
    /\ idxChan = <<>>
    /\ resIdx = 0
    /\ writerDone = FALSE
    /\ lastCall = ""
    /\ pre = NoPre
    /\ post = NoPost
    /\ exe = NoExe
    /\ closeLog = <<>>
    /\ roundLog = <<>>

\* The transactions that pass Prepare's checks in some state.
ExecPool == {t \in TxPool : t.hash \in {"a0", "a1", "a2", "b0", "c0"}}

NoReorder == [in |-> <<>>, seed |-> 0, out |-> <<>>, prev |-> <<>>, n |-> 0]

\* Any engine, offered the transactions of ExecPool.
Init ==
    /\ roundNum \in 1..MaxRound
    /\ runnerNumber \in 1..MaxRunner
    /\ parallelNum \in 1..MaxPar
    /\ offered = ExecPool
    /\ rt = NoReorder
    /\ Constructed

\* An engine with the largest rounds, offered every transaction of TxPool.
InitPrepare ==
    /\ roundNum = MaxRound
    /\ runnerNumber = MaxRunner
    /\ parallelNum \in 1..MaxPar
    /\ offered = TxPool
    /\ rt = NoReorder
    /\ Constructed

Next ==
    \/ \E tx \in offered : CollectTx(tx)
    \/ PrepareEmpty
    \/ \E seed \in 0..MaxSeed : PrepareStart(seed)
    \/ \E w \in Workers : ReadAccount(w)
    \/ PrepareReorder
    \/ \E idx \in Workers : Deduct(idx)
    \/ PrepareWriteBack
    \/ PrepareInsert
    \/ ExecuteStart
    \/ LoadStandbyTxs
    \/ \E w \in Workers : RunSlot(w)
    \/ StartResolver
    \/ ResolveSlot
    \/ SendSentinel
    \/ WriterStep
    \/ UpdateStandbyQ
    \/ ExecuteFinish

Spec == Init /\ [][Next]_vars
SpecPrepare == InitPrepare /\ [][Next]_vars

(***************************************************************************)
(* reorderInfoList on its own: any list of at most MaxLen infos over three *)
(* senders and any seed, and the function applied to them twice.           *)
(***************************************************************************)
ReorderSenders == {"A", "B", "C"}
ReorderSeeds == 0..7

\* The infos of a list of senders; the hash tells the positions apart.
InfosOf(froms) ==
    [i \in 1..Len(froms) |->
        [tx |-> [ZeroTx EXCEPT !.hashId = i, !.from = froms[i]],
         txBytes |-> <<>>, errorStr |-> "", set |-> TRUE]]

ReorderInputs == UNION {[1..n -> ReorderSenders] : n \in 0..MaxLen}

InitReorder ==
    /\ roundNum = 1
    /\ runnerNumber = 1
    /\ parallelNum = 1
    /\ offered = {}
    /\ \E froms \in ReorderInputs, seed \in ReorderSeeds :
           rt = [in |-> InfosOf(froms), seed |-> seed, out |-> <<>>, prev |-> <<>>, n |-> 0]
    /\ Constructed

\* One call of reorderInfoList(rt.in, rt.seed).
ReorderCall ==
    /\ rt.n < 2
    /\ rt' = [rt EXCEPT !.out = reorderInfoList(rt.in, rt.seed).out, !.prev = rt.out,
                        !.n = rt.n + 1]
    /\ UNCHANGED <<roundNum, runnerNumber, parallelNum, offered, txList, committedTxs,
                   cumulativeGasUsed, trunkVars, pc, calls, collected, prepVars, frontier,
                   execVars, lastCall, pre, post, obsVars>>

NextReorder == ReorderCall

SpecReorder == InitReorder /\ [][NextReorder]_vars

(***************************************************************************)
(* The handoff on its own: an engine with MaxBundle runners whose queue    *)
(* holds up to MaxBundle transactions, more than the channel takes, as     *)
(* Prepares of a0, b0 and c0 leave it over a genesis with richer senders,  *)
(* and one Execute.  The resolver and the writer goroutine are scheduled   *)
(* fairly.                                                                 *)
(***************************************************************************)
TxOf(h) == CHOOSE t \in TxPool : t.hash = h
HandoffPattern == <<TxOf("a0"), TxOf("b0"), TxOf("c0")>>
\* The queue of n transactions, head first.
HandoffQueue(n) ==
    [i \in 1..n |->
        LET tx == HandoffPattern[((i - 1) % Len(HandoffPattern)) + 1]
        IN  FromGethTx(tx, Sender(tx).addr)]
\* The accounts after the fees of the queued transactions were deducted.
HandoffAccounts(q) ==
    LET fee(a) == SumSeq([i \in 1..Len(q) |->
                             IF q[i].from = a THEN q[i].gas * q[i].gasPrice ELSE 0])
        all == SumSeq([i \in 1..Len(q) |-> q[i].gas * q[i].gasPrice])
    IN  [a \in AllAddrs |->
            IF a \in {"A", "B", "C"} THEN Acc(0, 2 * MaxBundle - fee(a))
            ELSE IF a = SystemAddr THEN Acc(0, all)
            ELSE NilAcc]

InitHandoff ==
    /\ roundNum \in 1..MaxRound
    /\ runnerNumber = MaxBundle
    /\ parallelNum \in 1..MaxPar
    /\ offered = {}
    /\ rt = NoReorder
    /\ \E n \in 1..MaxBundle :
          /\ standbyQ = [k \in 0..(n - 1) |-> ToBytes(HandoffQueue(n)[k + 1])]
          /\ startEndBz = <<0, n>>
          /\ accounts = HandoffAccounts(HandoffQueue(n))
    /\ storage = [k \in StorageKeys |-> ""]
    /\ txList = <<>>
    /\ committedTxs = <<>>
    /\ cumulativeGasUsed = 0
    /\ pc = "idle"
    /\ calls = MaxCalls - 1
    /\ collected = 0
    /\ pSeed = 0
    /\ sharedIdx = -1
    /\ infoList = <<>>
    /\ ctxAA = <<>>
    /\ addr2idx = EmptyMap
    /\ reorderedList = <<>>
    /\ addr2Infos = EmptyMap
    /\ queueEnd = 0
    /\ pStartEnd = <<>>
    /\ deducted = {}
    /\ frontier = EmptyFrontier
    /\ txRange = <<0, 0>>
    /\ round = 0
    /\ txBundle = <<>>
    /\ Runners = [i \in 0..(runnerNumber - 1) |-> NilRunner]
    /\ committableRunnerList = <<>>
    /\ touchedSet = {}
    /\ idxChan = <<>>
    /\ resIdx = 0
    /\ writerDone = FALSE
    /\ lastCall = "Prepare"
    /\ pre = NoPre
    /\ post = NoPost
    /\ exe = NoExe
    /\ closeLog = <<>>
    /\ roundLog = <<>>

NextHandoff ==
    \/ ExecuteStart
    \/ LoadStandbyTxs
    \/ \E w \in Workers : RunSlot(w)
    \/ StartResolver
    \/ ResolveSlot
    \/ SendSentinel
    \/ WriterStep
    \/ UpdateStandbyQ
    \/ ExecuteFinish

SpecHandoff ==
    /\ InitHandoff
    /\ [][NextHandoff]_vars
    /\ WF_vars(ResolveSlot)
    /\ WF_vars(SendSentinel)
    /\ WF_vars(WriterStep)

(***************************************************************************)
(* Properties of Prepare.                                                  *)
(***************************************************************************)
\* Prepare as one worker runs it, taking the indices of the list in order.
RECURSIVE RefRead(_, _, _, _)
RefRead(tr, list, i, st) ==
    IF i > Len(list) THEN st
    ELSE LET r == ReadOne(tr, list[i], st.entry)
         IN  RefRead(tr, list, i + 1, [entry |-> r.entry, infos |-> Append(st.infos, r.info)])

\* What that run leaves, from the trunk, the list and the seed in p.
RefPrepare(p) ==
    IF p.txList = <<>>
    THEN [infos |-> <<>>, accounts |-> p.accounts, standbyQ |-> p.standbyQ,
          startEndBz |-> p.startEndBz, committed |-> p.committed, frontier |-> EmptyFrontier]
    ELSE LET rd == RefRead(p.accounts, p.txList, 1, [entry |-> NewCtxAA, infos |-> <<>>])
             a2idx == Addr2IdxOf([w \in {0} |-> rd.entry])
             ro == reorderInfoList(rd.infos, p.seed)
             dd == DeductAccounts(p.accounts, [entry |-> rd.entry, infos |-> rd.infos],
                                  rd.entry.accounts, 0, a2idx, ro.addr2Infos)
             cs == [w \in {0} |-> dd.entry]
             tr == CloseAll(p.accounts, cs, 0)
             add == AddSystemAccBalance(tr, NewCtx, TotalGasFee(cs, 0))
             se == IF Len(p.startEndBz) >= 2 THEN p.startEndBz ELSE <<0, 0>>
             ins == InsertLoop([slots |-> p.standbyQ, end |-> se[2], committed |-> p.committed],
                               dd.infos, ro.out, cumulativeGasUsed)
         IN  [infos |-> dd.infos, accounts |-> CloseCtx(tr, add.ctx, TRUE),
              standbyQ |-> ins.slots, startEndBz |-> <<se[1], ins.end>>,
              committed |-> ins.committed, frontier |-> NewFrontierWithCtxAA(cs, a2idx)]

ErrorTags(infos) == [i \in 1..Len(infos) |-> infos[i].errorStr]
PrepareReturned == pc = "idle" /\ lastCall = "Prepare"

\* C1: whatever the number of workers, the order in which they claim the
\* indices and the worker that reads an account, Prepare leaves what a single
\* worker taking the indices in order leaves from the same trunk, list and
\* seed: after the join the same error tag on every transaction and the same
\* stored balances, and on return the same slots, the same start and end, the
\* same committed records and the same frontier.
C1_PrepareDeterministic ==
    /\ pc = "insert" =>
          /\ ErrorTags(infoList) = ErrorTags(RefPrepare(pre).infos)
          /\ accounts = RefPrepare(pre).accounts
    /\ PrepareReturned =>
          /\ ErrorTags(post.infos) = ErrorTags(RefPrepare(pre).infos)
          /\ accounts = RefPrepare(pre).accounts
          /\ standbyQ = RefPrepare(pre).standbyQ
          /\ startEndBz = RefPrepare(pre).startEndBz
          /\ committedTxs = RefPrepare(pre).committed
          /\ frontier = RefPrepare(pre).frontier

\* Two workers have each read accounts, one sender was read by both, and the
\* list had an accepted and a rejected transaction.
C1_Witness ==
    /\ pc = "insert"
    /\ parallelNum = 2
    /\ \A w \in Workers : ctxAA[w].accounts # <<>>
    /\ \E a \in Senders : \A w \in Workers : a \in Range(ctxAA[w].accounts)
    /\ \E i \in 1..Len(infoList) : infoList[i].errorStr # ""
    /\ \E i \in 1..Len(infoList) : infoList[i].txBytes # <<>>

\* The gas fees of the transactions in slots k .. end-1 sent by an address of addrs.
RECURSIVE QueueFee(_, _, _, _)
QueueFee(slots, k, end, addrs) ==
    IF k >= end THEN 0
    ELSE LET t == FromBytes(MapGet(slots, k, <<>>))
         IN  (IF t.from \in addrs THEN t.gas * t.gasPrice ELSE 0)
             + QueueFee(slots, k + 1, end, addrs)

\* The end of the queue as a Prepare found it.
PreEnd == IF Len(pre.startEndBz) >= 2 THEN pre.startEndBz[2] ELSE 0

\* C6: across one Prepare every address other than the system account loses
\* exactly the gas fees (gas * gasPrice) of its transactions that Prepare put
\* into the queue, so a rejected transaction changes no stored balance, and
\* the system account gains the sum of those fees.
C6_FeeConservation ==
    (PrepareReturned /\ pre.txList # <<>>) =>
        /\ \A a \in AllAddrs \ {SystemAddr} :
              pre.accounts[a].bal - accounts[a].bal
                  = QueueFee(standbyQ, PreEnd, startEndBz[2], {a})
        /\ accounts[SystemAddr].bal - pre.accounts[SystemAddr].bal
              = QueueFee(standbyQ, PreEnd, startEndBz[2], AllAddrs)

\* Two workers, two senders charged, a transaction rejected for its fee.
C6_Witness ==
    /\ PrepareReturned
    /\ parallelNum = 2
    /\ Cardinality({a \in Senders : accounts[a].bal < pre.accounts[a].bal}) >= 2
    /\ accounts[SystemAddr].bal - pre.accounts[SystemAddr].bal >= 3
    /\ \E i \in 1..Len(post.infos) : post.infos[i].errorStr = "not enough balance to pay gasfee"

\* The records a Prepare appended to committedTxs.
AddedRecords == SubSeq(committedTxs, Len(pre.committed) + 1, Len(committedTxs))
Rejected == {i \in 1..Len(post.infos) : post.infos[i].errorStr # ""}

\* C10: a transaction that Prepare tags with an error is written to no slot
\* and does not advance the queue's end (the slots Prepare adds are exactly
\* the accepted transactions, the older slots are untouched), and it gets
\* exactly one record in committedTxs, with status FAIL, gasUsed 0 and the
\* tag as statusStr.
C10_RejectedNeverQueued ==
    (PrepareReturned /\ pre.txList # <<>>) =>
        /\ startEndBz[2] - PreEnd = Len(post.infos) - Cardinality(Rejected)
        /\ DOMAIN standbyQ = (DOMAIN pre.standbyQ) \cup (PreEnd..(startEndBz[2] - 1))
        /\ \A k \in DOMAIN pre.standbyQ : standbyQ[k] = pre.standbyQ[k]
        /\ SubSeq(committedTxs, 1, Len(pre.committed)) = pre.committed
        /\ Len(AddedRecords) = Cardinality(Rejected)
        /\ \A i \in Rejected :
              /\ post.infos[i].errorStr \in
                     {"invalid signature", "invalid gas price", "invalid gas limit",
                      "non-existent account", "incorrect nonce",
                      "not enough balance to pay gasfee"}
              /\ \A k \in PreEnd..(startEndBz[2] - 1) :
                     FromBytes(standbyQ[k]).hashId # post.infos[i].tx.hashId
              /\ Cardinality({j \in 1..Len(AddedRecords) :
                                 AddedRecords[j].hash = post.infos[i].tx.hashId}) = 1
              /\ \A j \in 1..Len(AddedRecords) :
                     AddedRecords[j].hash = post.infos[i].tx.hashId =>
                         /\ AddedRecords[j].status = ReceiptStatusFailed
                         /\ AddedRecords[j].gasUsed = 0
                         /\ AddedRecords[j].statusStr = post.infos[i].errorStr

\* A Prepare that rejected one transaction for its nonce and one for its fee
\* and accepted a third, with the queue not empty before.
C10_Witness ==
    /\ PrepareReturned
    /\ PreEnd > 0
    /\ \E i \in Rejected : post.infos[i].errorStr = "incorrect nonce"
    /\ \E i \in Rejected : post.infos[i].errorStr = "not enough balance to pay gasfee"

(***************************************************************************)
(* Properties of Execute.                                                  *)
(***************************************************************************)
ExecuteReturned == pc = "idle" /\ lastCall = "Execute"

\* The runners of all finished rounds as the resolver left them, in order.
RECURSIVE RunnersOf(_)
RunnersOf(log) == IF log = <<>> THEN <<>> ELSE Head(log).runners \o RunnersOf(Tail(log))

\* What the round did with a runner.
RunnerCommitted(r) == r.canCommit /\ ~IsRetry(r.status) /\ ~IsInvalid(r.status)
RunnerDropped(r) == IsInvalid(r.status)
Dropped == SelectSeq(RunnersOf(roundLog), RunnerDropped)

Count(seq, P(_)) == Cardinality({i \in 1..Len(seq) : P(seq[i])})

\* C2: in every round the writer goroutine closes the context of every slot
\* of the bundle exactly once, in ascending slot order, and the committed list
\* is ordered by round and within a round by slot, whatever the scheduling of
\* the writer against the resolver.
C2_CloseAndCommitOrder ==
    /\ \A j \in 1..Len(closeLog) :
          /\ closeLog[j].idx = Cardinality({k \in 1..(j - 1) : closeLog[k].rnd = closeLog[j].rnd})
          /\ \A k \in 1..(j - 1) : closeLog[k].rnd <= closeLog[j].rnd
    /\ \A e \in 1..Len(roundLog) :
          Cardinality({j \in 1..Len(closeLog) : closeLog[j].rnd = roundLog[e].rnd})
              = Len(roundLog[e].bundle)
    /\ \A i, j \in 1..Len(committableRunnerList) :
          i < j =>
              \/ committableRunnerList[i].rnd < committableRunnerList[j].rnd
              \/ /\ committableRunnerList[i].rnd = committableRunnerList[j].rnd
                 /\ committableRunnerList[i].idx < committableRunnerList[j].idx
    /\ ExecuteReturned =>
          /\ Len(committedTxs) = Len(committableRunnerList)
          /\ \A i \in 1..Len(committedTxs) :
                /\ committedTxs[i].hash = committableRunnerList[i].tx.hashId
                /\ committedTxs[i].transactionIndex = i - 1

\* An Execute of two rounds under two workers that closed four contexts and
\* committed two transactions in the first round and one in the second.
C2_Witness ==
    /\ ExecuteReturned
    /\ parallelNum = 2
    /\ Len(roundLog) = 2
    /\ Len(closeLog) = 4
    /\ Len(committedTxs) = 3
    /\ committableRunnerList[2].rnd = 0
    /\ committableRunnerList[3].rnd = 1

\* The nonces of the records of seq that sender a sent.
NoncesOf(seq, a) ==
    LET mine == SelectSeq(seq, LAMBDA t : t.from = a)
    IN  [i \in 1..Len(mine) |-> mine[i].nonce]
Consecutive(ns) == \A i \in 1..(Len(ns) - 1) : ns[i + 1] = ns[i] + 1

\* C3: for every sender, the transactions one Execute commits appear in the
\* committed list in ascending nonce order without a gap.
C3_NoncesAscending ==
    /\ \A a \in AllAddrs :
          Consecutive(NoncesOf([i \in 1..Len(committableRunnerList) |->
                                    committableRunnerList[i].tx], a))
    /\ ExecuteReturned => \A a \in AllAddrs : Consecutive(NoncesOf(committedTxs, a))

\* An Execute that committed two transactions of one sender and one of another.
C3_Witness ==
    /\ ExecuteReturned
    /\ Len(NoncesOf(committedTxs, "A")) = 2
    /\ \E a \in Senders \ {"A"} : Len(NoncesOf(committedTxs, a)) = 1

\* C4: when Execute returns, the length of the standby queue as persisted
\* (end - start) is the length Execute found, less the transactions committed,
\* less the transactions dropped; it is zero exactly when every transaction
\* Execute found was committed or dropped.
C4_StandbyLength ==
    ExecuteReturned =>
        LET range == getStandbyQueueRange
            hashes == {exe.queue0[i].hashId : i \in 1..Len(exe.queue0)}
            settled(h) == Count(committedTxs, LAMBDA t : t.hash = h)
                          + Count(Dropped, LAMBDA r : r.tx.hashId = h)
        IN  /\ range[2] - range[1] = Len(exe.queue0) - Len(committedTxs) - Len(Dropped)
            /\ (range[2] - range[1] = 0) <=>
                   \A h \in hashes : Count(exe.queue0, LAMBDA t : t.hashId = h) = settled(h)

\* An Execute that committed a transaction, dropped one and left one queued.
C4_Witness ==
    /\ ExecuteReturned
    /\ Len(committedTxs) >= 1
    /\ Len(Dropped) >= 1
    /\ getStandbyQueueRange[2] - getStandbyQueueRange[1] >= 1

\* C5: when Execute returns, cumulativeGasUsed is the sum of gasUsed over the
\* committed transactions plus the sum of the gas limits of the transactions
\* dropped as invalid; a retried transaction adds nothing.
C5_CumulativeGas ==
    ExecuteReturned =>
        cumulativeGasUsed
            = SumSeq([i \in 1..Len(committedTxs) |-> committedTxs[i].gasUsed])
              + SumSeq([i \in 1..Len(Dropped) |-> Dropped[i].tx.gas])

\* An Execute that committed a transaction using less than its gas limit,
\* dropped one and retried one.
C5_Witness ==
    /\ ExecuteReturned
    /\ \E i \in 1..Len(committedTxs) : committedTxs[i].gasUsed < committedTxs[i].gas
    /\ Len(Dropped) >= 1
    /\ \E i \in 1..Len(RunnersOf(roundLog)) : IsRetry(RunnersOf(roundLog)[i].status)

\* The storage keys a runner wrote.
Written(r) == r.dirty \cap StorageKeys
\* The round of entry e put r's transaction back at the end of the queue.
Reappended(e, r) == \E k \in e.end..(e.endAfter - 1) : MapGet(e.slotsAfter, k, <<>>) = ToBytes(r.tx)
\* The pairs of slots of a finished round whose runners wrote a common storage key.
WritePairs ==
    {<<e, i, j>> \in (1..Len(roundLog)) \X (1..MaxRunner + 1) \X (1..MaxRunner + 1) :
        /\ i < j
        /\ j <= Len(roundLog[e].runners)
        /\ Written(roundLog[e].runners[i]) \cap Written(roundLog[e].runners[j]) # {}}

\* C8 as stated: of two transactions of a round that write the same storage
\* key the one in the later slot is never committed, and when the earlier one
\* is committed the later one is marked FAILED_TO_COMMIT and re-appended.
C8_EarlierSlotWins ==
    \A p \in WritePairs :
        LET e == roundLog[p[1]]
            ri == e.runners[p[2]]
            rj == e.runners[p[3]]
        IN  /\ ~RunnerCommitted(rj)
            /\ RunnerCommitted(ri) => (rj.status = FAILED_TO_COMMIT /\ Reappended(e, rj))

\* C8: of two transactions of a round that write the same storage key at most
\* one is committed in that round; when the one in the earlier slot passes the
\* resolver it is the one committed and the later one is marked
\* FAILED_TO_COMMIT; each of the two that is not committed is marked
\* FAILED_TO_COMMIT and re-appended to the queue.
C8_OneWriterPerRound ==
    \A p \in WritePairs :
        LET e == roundLog[p[1]]
            ri == e.runners[p[2]]
            rj == e.runners[p[3]]
        IN  /\ ~(RunnerCommitted(ri) /\ RunnerCommitted(rj))
            /\ ri.canCommit => (RunnerCommitted(ri) /\ rj.status = FAILED_TO_COMMIT)
            /\ \A r \in {ri, rj} :
                  ~RunnerCommitted(r) => (r.status = FAILED_TO_COMMIT /\ Reappended(e, r))

\* A round in which the earlier of two writers of a key lost to a still
\* earlier slot and the later one was committed.
C8_Witness ==
    \E p \in WritePairs :
        /\ roundLog[p[1]].runners[p[2]].status = FAILED_TO_COMMIT
        /\ RunnerCommitted(roundLog[p[1]].runners[p[3]])

\* The keys a transaction touches when it runs.
TouchKeys(tx) == {tx.from} \cup tx.rset \cup tx.wset
PairwiseDisjoint(txs) ==
    \A i, j \in 1..Len(txs) : i < j => TouchKeys(txs[i]) \cap TouchKeys(txs[j]) = {}

\* C9 as stated: when the transactions of the standby queue touch pairwise
\* disjoint key sets, the first round commits every one of them.
C9_QueueCommitsInFirstRound ==
    (Len(roundLog) >= 1 /\ PairwiseDisjoint(exe.queue0)) =>
        /\ Len(roundLog[1].bundle) = Len(exe.queue0)
        /\ \A i \in 1..Len(roundLog[1].runners) : RunnerCommitted(roundLog[1].runners[i])

\* C9: when the transactions of a round's bundle (the first runnerNumber of
\* the queue) touch pairwise disjoint key sets, the resolver marks none of
\* them FAILED_TO_COMMIT, and every one of them that runTx ran to the end (its
\* nonce was the stored one) is committed in that round.
C9_DisjointBundleCommits ==
    \A e \in 1..Len(roundLog) :
        PairwiseDisjoint(roundLog[e].bundle) =>
            \A i \in 1..Len(roundLog[e].runners) :
                LET r == roundLog[e].runners[i]
                IN  /\ r.status # FAILED_TO_COMMIT
                    /\ r.canCommit
                    /\ r.status \notin {TX_NONCE_TOO_LARGE, TX_NONCE_TOO_SMALL, ACCOUNT_NOT_EXIST}
                          => \E k \in 1..Len(committableRunnerList) :
                                 committableRunnerList[k] = r

\* A first round whose bundle of two disjoint transactions is committed while
\* the queue holds a third.
C9_Witness ==
    /\ Len(roundLog) >= 1
    /\ PairwiseDisjoint(roundLog[1].bundle)
    /\ Len(exe.queue0) > Len(roundLog[1].bundle)
    /\ Len(roundLog[1].bundle) = 2
    /\ \A i \in 1..2 : RunnerCommitted(roundLog[1].runners[i])

(***************************************************************************)
(* Properties of the block's data flow and of the persisted queue.         *)
(***************************************************************************)
\* C11: when an Execute that follows a Prepare has returned, committedTxs
\* still holds, for every record that Prepare appended for a rejected
\* transaction, a record with the same hash, status FAIL and the same tag.
C11_FailReceiptSurvives ==
    ExecuteReturned =>
        \A i \in 1..Len(exe.found) :
            \E j \in 1..Len(committedTxs) :
                /\ committedTxs[j].hash = exe.found[i].hash
                /\ committedTxs[j].status = ReceiptStatusFailed
                /\ committedTxs[j].statusStr = exe.found[i].statusStr

\* The slots the persisted control value describes.
PersistedSlots == getStandbyQueueRange[1]..(getStandbyQueueRange[2] - 1)

\* C12: between any two update sections of the trunk, in Prepare and in every
\* round of Execute, the slots present in the store are the ones the persisted
\* (start, end) describes: no slot is deleted or written while the control
\* value still describes the queue before that change.
C12_ControlValueAtomic == DOMAIN standbyQ = PersistedSlots

\* C13: once a Prepare or an Execute has returned, the persisted control value
\* has start <= end, every slot from start up to end - 1 holds a serialized
\* transaction, and no slot outside that range holds anything.
C13_QueueInvariant ==
    (PrepareReturned \/ ExecuteReturned) =>
        /\ getStandbyQueueRange[1] <= getStandbyQueueRange[2]
        /\ DOMAIN standbyQ = PersistedSlots
        /\ \A k \in PersistedSlots :
              /\ Len(standbyQ[k]) = 11
              /\ ToBytes(FromBytes(standbyQ[k])) = standbyQ[k]
              /\ FromBytes(standbyQ[k]).hashId # ""

\* An Execute that consumed slots from the head, re-appended or left some, and
\* returned with a queue that is not empty and does not start at 0.
C13_Witness ==
    /\ ExecuteReturned
    /\ getStandbyQueueRange[1] > 0
    /\ getStandbyQueueRange[2] > getStandbyQueueRange[1]
    /\ \E e \in 1..Len(roundLog) : roundLog[e].endAfter > roundLog[e].end

\* The indices of the accepted infos in the order of the reordered list.
AcceptedOrder == SelectSeq(post.order, LAMBDA i : post.infos[i].errorStr = "")
PreStart == IF Len(pre.startEndBz) >= 2 THEN pre.startEndBz[1] ELSE 0

\* C14: Prepare writes the accepted transactions to the consecutive slots
\* end0, end0+1, ... (end0 the persisted end it found) in the order they have
\* in the reordered list, which is a function of the infos and the seed alone;
\* the persisted end grows by the number of accepted transactions, the
\* persisted start and every slot below end0 stay as they were.
C14_InsertFollowsReorder ==
    (PrepareReturned /\ pre.txList # <<>>) =>
        /\ post.order = reorderInfoList(post.infos, pre.seed).out
        /\ getStandbyQueueRange = <<PreStart, PreEnd + Len(AcceptedOrder)>>
        /\ \A k \in 1..Len(AcceptedOrder) :
              /\ (PreEnd + k - 1) \in DOMAIN standbyQ
              /\ standbyQ[PreEnd + k - 1] = ToBytes(post.infos[AcceptedOrder[k]].tx)
        /\ \A s \in DOMAIN pre.standbyQ :
              s \in DOMAIN standbyQ /\ standbyQ[s] = pre.standbyQ[s]
        /\ \A s \in DOMAIN standbyQ : s < PreEnd => s \in DOMAIN pre.standbyQ

\* A Prepare with two workers onto a queue that is not empty, which accepted
\* two transactions that the reordering put in the opposite order.
C14_Witness ==
    /\ PrepareReturned
    /\ parallelNum = 2
    /\ PreEnd > 0
    /\ Len(AcceptedOrder) >= 2
    /\ AcceptedOrder[1] > AcceptedOrder[2]

\* The accepted transactions of sender a in a Prepare.
AcceptedOf(a) == {i \in 1..Len(post.infos) :
                     post.infos[i].errorStr = "" /\ post.infos[i].tx.from = a}

\* C15: for every sender with a transaction accepted by a Prepare, the nonce
\* in the returned frontier is the sender's stored nonce when Prepare began
\* plus the number of its transactions this Prepare accepted.
C15_FrontierNonce ==
    (PrepareReturned /\ pre.txList # <<>>) =>
        \A a \in AllAddrs :
            AcceptedOf(a) # {} =>
                /\ a \in DOMAIN frontier.addr2nonce
                /\ frontier.addr2nonce[a]
                       = pre.accounts[a].nonce + Cardinality(AcceptedOf(a))

\* Slot i (from 1) of the round of entry e follows a slot of the same sender.
FollowsSameSender(e, i) == i >= 2 /\ e.bundle[i - 1].from = e.bundle[i].from
\* The queue an Execute found is two transactions of one sender, nonces n and n+1.
TwoOfOneSender ==
    /\ Len(exe.queue0) = 2
    /\ exe.queue0[1].from = exe.queue0[2].from
    /\ exe.queue0[2].nonce = exe.queue0[1].nonce + 1

InfoFee(info) == info.tx.gas * info.tx.gasPrice
\* The fees of the infos of a list that have been accepted (txBytes is set).
AcceptedFees(infos, addrs) ==
    SumSeq([i \in 1..Len(infos) |->
               IF infos[i].txBytes # <<>> /\ infos[i].tx.from \in addrs
               THEN InfoFee(infos[i]) ELSE 0])
FeeRejected == {i \in 1..Len(post.infos) :
                   post.infos[i].errorStr = "not enough balance to pay gasfee"}

\* C17: a transaction whose sender's stored balance is below gas * gasPrice
\* is never accepted, and when it gets as far as the deduction it is tagged
\* "not enough balance to pay gasfee"; a transaction with that tag adds
\* nothing to a worker's totalGasFee (during and after the deduction section
\* the workers' totals are the fees of the accepted transactions only), has
\* no slot, leaves its sender's stored balance as it was but for the fees of
\* the sender's accepted transactions, and leaves balance 0 for its sender in
\* the returned frontier.
C17_InsufficientFeeRejected ==
    /\ pc \in {"deduct", "insert"} =>
          TotalGasFee(ctxAA, 0) = AcceptedFees(infoList, AllAddrs)
    /\ (PrepareReturned /\ pre.txList # <<>>) =>
          /\ \A i \in 1..Len(post.infos) :
                pre.accounts[post.infos[i].tx.from].bal < InfoFee(post.infos[i]) =>
                    /\ post.infos[i].txBytes = <<>>
                    /\ post.infos[i].errorStr \in
                           {"invalid signature", "invalid gas price", "invalid gas limit",
                            "non-existent account", "incorrect nonce",
                            "not enough balance to pay gasfee"}
                    /\ (/\ post.infos[i].tx.nonce = pre.accounts[post.infos[i].tx.from].nonce
                        /\ post.infos[i].errorStr \notin
                               {"invalid signature", "invalid gas price", "invalid gas limit",
                                "non-existent account"}
                        /\ \A j \in 1..(i - 1) : post.infos[j].tx.from # post.infos[i].tx.from)
                           => i \in FeeRejected
          /\ \A i \in FeeRejected :
                LET a == post.infos[i].tx.from
                IN  /\ post.infos[i].txBytes = <<>>
                    /\ \A k \in PreEnd..(getStandbyQueueRange[2] - 1) :
                           FromBytes(standbyQ[k]).hashId # post.infos[i].tx.hashId
                    /\ pre.accounts[a].bal - accounts[a].bal = AcceptedFees(post.infos, {a})
                    /\ AcceptedOf(a) = {} => accounts[a] = pre.accounts[a]
                    /\ a \in DOMAIN frontier.addr2Balance
                    /\ frontier.addr2Balance[a] = 0
          /\ accounts[SystemAddr].bal - pre.accounts[SystemAddr].bal
                 = AcceptedFees(post.infos, AllAddrs)

\* A Prepare with two workers that accepted a transaction of one sender and
\* rejected the transaction of another whose stored balance, not zero, is
\* below the fee.
C17_Witness ==
    /\ PrepareReturned
    /\ parallelNum = 2
    /\ AcceptedFees(post.infos, AllAddrs) > 0
    /\ \E i \in FeeRejected :
          /\ pre.accounts[post.infos[i].tx.from].bal > 0
          /\ pre.accounts[post.infos[i].tx.from].bal < InfoFee(post.infos[i])
          /\ accounts[post.infos[i].tx.from] = pre.accounts[post.infos[i].tx.from]
          /\ frontier.addr2Balance[post.infos[i].tx.from] = 0

\* The number of transactions loadStandbyTxs takes from a queue of len transactions.
LoadCount(len) == IF len > runnerNumber THEN runnerNumber ELSE len
\* The transaction in slot s when the round of the k-th entry of roundLog began.
SlotBefore(k, s) ==
    IF k = 1 THEN exe.queue0[s - roundLog[1].start + 1]
    ELSE FromBytes(MapGet(roundLog[k - 1].slotsAfter, s, <<>>))

\* C18: an Execute runs at most roundNum rounds, none of them on an empty
\* queue, and returns only after roundNum rounds or with the queue empty;
\* each round loads min(runnerNumber, end - start) transactions, which are the
\* transactions of the slots start, start+1, ... in that order, and begins
\* where the round before left the queue; so the runners of one Execute are
\* at most roundNum * runnerNumber.
C18_RoundsBounded ==
    /\ Len(roundLog) <= roundNum
    /\ pc \in {"run", "resolve"} => Len(roundLog) < roundNum
    /\ \A k \in 1..Len(roundLog) :
          LET e == roundLog[k]
          IN  /\ e.rnd = k - 1
              /\ e.end > e.start
              /\ Len(e.bundle) = LoadCount(e.end - e.start)
              /\ Len(e.runners) = Len(e.bundle)
              /\ \A i \in 1..Len(e.bundle) :
                    /\ e.bundle[i] = SlotBefore(k, e.start + i - 1)
                    /\ e.runners[i].tx = e.bundle[i]
              /\ k > 1 => /\ e.start = roundLog[k - 1].start + Len(roundLog[k - 1].bundle)
                          /\ e.end = roundLog[k - 1].endAfter
    /\ ExecuteReturned =>
          /\ Len(roundLog) = roundNum \/ getStandbyQueueRange[1] = getStandbyQueueRange[2]
          /\ exe.queue0 = <<>> => roundLog = <<>>
          /\ roundLog # <<>> => Len(exe.queue0) = roundLog[1].end - roundLog[1].start
    /\ Len(RunnersOf(roundLog)) <= roundNum * runnerNumber

\* An Execute of two rounds with two runners on a queue of three transactions:
\* the first round loaded two of them, and the queue is not empty at the end.
C18_Witness ==
    /\ ExecuteReturned
    /\ roundNum = 2
    /\ runnerNumber = 2
    /\ Len(roundLog) = 2
    /\ roundLog[1].end - roundLog[1].start = 3
    /\ Len(roundLog[1].bundle) = 2
    /\ Len(RunnersOf(roundLog)) = 4
    /\ getStandbyQueueRange[1] < getStandbyQueueRange[2]

\* The length of the queue (end - start) after the round of entry e.
LengthAfter(e) == e.endAfter - (e.start + Len(e.bundle))

\* C19: after every round of an Execute fewer transactions remain in the
\* standby queue than before that round.
C19_RoundsConverge ==
    \A k \in 1..Len(roundLog) :
        LengthAfter(roundLog[k]) < roundLog[k].end - roundLog[k].start

\* The runners of the slots before slot i (from 1) of entry e that the round retried.
RetriesBefore(e, i) ==
    Cardinality({j \in 1..(i - 1) :
                    e.runners[j].status \in {FAILED_TO_COMMIT, TX_NONCE_TOO_LARGE}})
\* The places in committableRunnerList of the runner of slot i of entry e.
CollectedAt(e, i) ==
    {j \in 1..Len(committableRunnerList) :
        /\ committableRunnerList[j].rnd = e.rnd
        /\ committableRunnerList[j].idx = i - 1}

\* C20: the trunk update that ends a round deletes the slot of every
\* transaction of the bundle and moves start past it; a transaction with
\* status FAILED_TO_COMMIT or TX_NONCE_TOO_LARGE is written again, unchanged,
\* at the end of the queue, in bundle order, and is not collected; one with
\* ACCOUNT_NOT_EXIST or TX_NONCE_TOO_SMALL is neither written again nor
\* collected and its gas limit is added to cumulativeGasUsed; one with any
\* other status is collected once as committable and not written again.  The
\* slots the round did not load stay as they were, so no transaction is lost.
C20_ResolverDispatch ==
    /\ \A k \in 1..Len(roundLog) :
          LET e == roundLog[k]
              n == Len(e.bundle)
              retry(i) == e.runners[i].status \in {FAILED_TO_COMMIT, TX_NONCE_TOO_LARGE}
              invalid(i) == e.runners[i].status \in {ACCOUNT_NOT_EXIST, TX_NONCE_TOO_SMALL}
          IN  /\ \A i \in 1..n :
                    /\ (e.start + i - 1) \notin DOMAIN e.slotsAfter
                    /\ retry(i) =>
                          /\ (e.end + RetriesBefore(e, i)) \in DOMAIN e.slotsAfter
                          /\ e.slotsAfter[e.end + RetriesBefore(e, i)] = ToBytes(e.bundle[i])
                          /\ CollectedAt(e, i) = {}
                    /\ invalid(i) => CollectedAt(e, i) = {}
                    /\ (~retry(i) /\ ~invalid(i)) =>
                          /\ Cardinality(CollectedAt(e, i)) = 1
                          /\ \A j \in CollectedAt(e, i) :
                                 committableRunnerList[j] = e.runners[i]
              /\ e.endAfter - e.end = RetriesBefore(e, n + 1)
              /\ DOMAIN e.slotsAfter = (e.start + n)..(e.endAfter - 1)
              /\ \A q \in (e.start + n)..(e.end - 1) :
                    e.slotsAfter[q] = ToBytes(SlotBefore(k, q))
              /\ e.cumAfter - e.cumBefore
                     = SumSeq([i \in 1..n |-> IF invalid(i) THEN e.bundle[i].gas ELSE 0])
    /\ (pc = "round" /\ roundLog # <<>>) =>
          LET e == roundLog[Len(roundLog)]
          IN  /\ txRange = <<e.start + Len(e.bundle), e.endAfter>>
              /\ standbyQ = e.slotsAfter
    /\ Len(committableRunnerList)
           = Cardinality({i \in 1..Len(RunnersOf(roundLog)) :
                RunnersOf(roundLog)[i].status \notin
                    {FAILED_TO_COMMIT, TX_NONCE_TOO_LARGE, ACCOUNT_NOT_EXIST, TX_NONCE_TOO_SMALL}})

\* An Execute with a round that committed one transaction and retried another
\* while a third waited in the queue, and a round that dropped a transaction
\* for its nonce.
C20_Witness ==
    /\ ExecuteReturned
    /\ \E k \in 1..Len(roundLog) :
          /\ roundLog[k].end - roundLog[k].start > Len(roundLog[k].bundle)
          /\ \E i, j \in 1..Len(roundLog[k].runners) :
                /\ roundLog[k].runners[i].status \in {FAILED_TO_COMMIT, TX_NONCE_TOO_LARGE}
                /\ roundLog[k].runners[j].status \in {SUCCESS, REVERTED}
    /\ \E k \in 1..Len(roundLog) :
          \E i \in 1..Len(roundLog[k].runners) :
              roundLog[k].runners[i].status = TX_NONCE_TOO_SMALL

(***************************************************************************)
(* Properties of the resolver, of the deduction workers and of the writer. *)
(***************************************************************************)
\* The keys ScanAllShortKeys reports for a runner's context.
ScannedKeys(r) == r.reads \cup r.dirty
\* The written keys of the runners before place i of a sequence that passed the check.
TouchedBefore(runners, i) ==
    UNION {runners[j].dirty : j \in {x \in 1..(i - 1) : runners[x].canCommit}}

\* C21: the resolver marks a slot FAILED_TO_COMMIT exactly when one of the
\* keys its context recorded, read or written, was written by an earlier slot
\* of the round that passed the check; while the resolver scans, touchedSet is
\* exactly the set of keys written by the slots scanned so far that passed,
\* so it holds no key that was only read and no key of a slot that failed.
C21_ConflictRule ==
    /\ \A k \in 1..Len(roundLog) :
          \A i \in 1..Len(roundLog[k].runners) :
              LET r == roundLog[k].runners[i]
                  hit == ScannedKeys(r) \cap TouchedBefore(roundLog[k].runners, i) # {}
              IN  /\ (r.status = FAILED_TO_COMMIT) <=> hit
                  /\ r.canCommit <=> ~hit
    /\ pc = "resolve" =>
          LET n == IF resIdx > Len(txBundle) THEN Len(txBundle) ELSE resIdx
              done == [i \in 1..n |-> Runners[i - 1]]
          IN  /\ touchedSet = TouchedBefore(done, n + 1)
              /\ \A i \in 1..n :
                    LET hit == ScannedKeys(done[i]) \cap TouchedBefore(done, i) # {}
                    IN  /\ (done[i].status = FAILED_TO_COMMIT) <=> hit
                        /\ done[i].canCommit <=> ~hit

\* A round in which a slot that passed had read a storage key that a later
\* slot wrote, the later slot passed too, and another round in which a slot
\* failed on a key an earlier slot had written.
C21_Witness ==
    /\ \E k \in 1..Len(roundLog) :
          \E i, j \in 1..Len(roundLog[k].runners) :
              /\ i < j
              /\ roundLog[k].runners[i].canCommit
              /\ roundLog[k].runners[j].canCommit
              /\ roundLog[k].runners[i].reads \cap roundLog[k].runners[j].dirty # {}
    /\ \E k \in 1..Len(roundLog) :
          \E i \in 1..Len(roundLog[k].runners) :
              roundLog[k].runners[i].status = FAILED_TO_COMMIT

\* The workers whose preload put address a into their accounts.
Holders(a) == {w \in DOMAIN ctxAA : a \in Range(ctxAA[w].accounts)}
\* The infos of the senders that the lowest worker holding them is w.
InfosOfWorker(w) ==
    {i \in 1..Len(infoList) :
        /\ infoList[i].errorStr \notin {"invalid signature", "invalid gas price",
                                        "invalid gas limit", "non-existent account"}
        /\ w \in Holders(infoList[i].tx.from)
        /\ \A v \in Holders(infoList[i].tx.from) : w <= v}
DeductionTags == {"incorrect nonce", "not enough balance to pay gasfee"}

\* C22: in the deduction section every sender belongs to the worker with the
\* lowest index among those that preloaded it; a worker writes the account,
\* the cached nonce and the cached balance of its own senders only, its
\* totalGasFee is the fees of its own senders' accepted transactions, and it
\* settles every transaction of its senders (accepted, or tagged for nonce or
\* fee) while no other worker touches them: before the worker has run, none
\* of its senders' transactions is settled.
C22_OneWorkerPerSender ==
    pc = "deduct" =>
        /\ \A a \in AllAddrs :
              /\ a \in DOMAIN addr2idx <=> Holders(a) # {}
              /\ a \in DOMAIN addr2idx =>
                    /\ addr2idx[a] \in Holders(a)
                    /\ \A v \in Holders(a) : addr2idx[a] <= v
        /\ \A i \in 1..Len(infoList) :
              infoList[i].errorStr \notin {"invalid signature", "invalid gas price",
                                           "invalid gas limit", "non-existent account"}
                  => Cardinality({w \in Workers : i \in InfosOfWorker(w)}) = 1
        /\ \A w \in Workers :
              LET own == {a \in AllAddrs : Holders(a) # {} /\ \A v \in Holders(a) : w <= v
                                           /\ w \in Holders(a)}
              IN  /\ ctxAA[w].ctx.dirty \subseteq own
                  /\ \A a \in DOMAIN ctxAA[w].addr2nonce :
                        ctxAA[w].addr2nonce[a] # accounts[a].nonce => a \in own
                  /\ \A a \in DOMAIN ctxAA[w].addr2Balance :
                        ctxAA[w].addr2Balance[a] # accounts[a].bal => a \in own
                  /\ ctxAA[w].totalGasFee = AcceptedFees(infoList, own)
                  /\ w \in deducted =>
                        \A i \in InfosOfWorker(w) :
                            \/ infoList[i].txBytes # <<>> /\ infoList[i].errorStr = ""
                            \/ infoList[i].txBytes = <<>> /\ infoList[i].errorStr \in DeductionTags
                  /\ w \notin deducted =>
                        /\ ctxAA[w].ctx.dirty = {}
                        /\ ctxAA[w].totalGasFee = 0
                        /\ \A i \in InfosOfWorker(w) :
                              infoList[i].txBytes = <<>> /\ infoList[i].errorStr = ""

\* Two workers after the deduction: a sender that both preloaded was debited
\* by worker 0, and worker 1 debited a sender of its own.
C22_Witness ==
    /\ pc = "deduct"
    /\ parallelNum = 2
    /\ deducted = Workers
    /\ \E a \in Senders : Holders(a) = {0, 1} /\ a \in ctxAA[0].ctx.dirty
    /\ ctxAA[1].ctx.dirty # {}

\* An info has its serialized bytes and no error tag, or a tag and no bytes.
Settled(info) ==
    \/ /\ info.errorStr = ""
       /\ info.txBytes # <<>>
       /\ info.txBytes = ToBytes(info.tx)
    \/ /\ info.errorStr # ""
       /\ info.txBytes = <<>>
DeductionOver == pc = "insert" \/ (pc = "deduct" /\ deducted = Workers)

\* C23: when the deduction workers have joined, every info of the list has
\* either the serialized bytes of its transaction and no error tag or an
\* error tag and no bytes, never both and never neither; so the slots
\* insertToStandbyTxQ writes are never empty.
C23_BytesOrTag ==
    /\ DeductionOver =>
          /\ Len(infoList) = Len(txList)
          /\ \A i \in 1..Len(infoList) : infoList[i].set /\ Settled(infoList[i])
    /\ (PrepareReturned /\ pre.txList # <<>>) =>
          /\ Len(post.infos) = Len(pre.txList)
          /\ \A i \in 1..Len(post.infos) : Settled(post.infos[i])
          /\ \A k \in PreEnd..(getStandbyQueueRange[2] - 1) :
                k \in DOMAIN standbyQ /\ standbyQ[k] # <<>>

\* The deduction of two workers is over on a list with an accepted
\* transaction, a transaction of the same sender rejected in the deduction and
\* a transaction rejected by the preload.
C23_Witness ==
    /\ DeductionOver
    /\ parallelNum = 2
    /\ \E i, j \in 1..Len(infoList) :
          /\ infoList[i].tx.from = infoList[j].tx.from
          /\ infoList[i].errorStr = ""
          /\ infoList[j].errorStr \in DeductionTags
    /\ \E i \in 1..Len(infoList) :
          infoList[i].errorStr \in {"invalid signature", "invalid gas price",
                                    "invalid gas limit", "non-existent account"}

\* The closes the writer made of slot i (from 1) of the round of entry e.
ClosesOf(e, i) ==
    {j \in 1..Len(closeLog) : closeLog[j].rnd = e.rnd /\ closeLog[j].idx = i - 1}

WriterFinished ==
    /\ writerDone
    /\ idxChan = <<>>
    /\ resIdx > Len(txBundle)
    /\ Cardinality({j \in 1..Len(closeLog) : closeLog[j].rnd = round}) = Len(txBundle)
\* The resolver can send, the writer can receive, or the caller can leave wg.Wait.
HandoffCanMove ==
    \/ resIdx <= Len(txBundle) /\ Len(idxChan) < ChanCap
    \/ ~writerDone /\ idxChan # <<>>
    \/ writerDone /\ resIdx > Len(txBundle)

\* C25: for a bundle of any size up to MaxBundle, which is more than the
\* channel holds, the handoff is never stuck (the channel never holds more
\* than its capacity, and while it goes on the resolver, the writer or the
\* caller can take a step); it always comes to the point where the resolver
\* has sent every slot and the sentinel and the writer has closed every
\* slot's context and left; and the trunk update of the standby queue is
\* made only at that point.
C25_HandoffTerminates ==
    /\ [](Len(idxChan) <= ChanCap)
    /\ [](pc = "resolve" => HandoffCanMove)
    /\ [][UpdateStandbyQ => WriterFinished]_vars
    /\ (pc = "resolve") ~> (pc = "resolve" /\ WriterFinished)

\* The resolver stands before a slot it cannot send: the channel holds
\* ChanCap decisions of a bundle of MaxBundle slots and the writer has not
\* closed any context yet.
C25_Witness ==
    /\ pc = "resolve"
    /\ Len(txBundle) = MaxBundle
    /\ Len(txBundle) > ChanCap
    /\ Len(idxChan) = ChanCap
    /\ resIdx < Len(txBundle)
    /\ closeLog = <<>>

====
